---------------------------- MODULE Spec2Model ----------------------------
(***************************************************************************)
(* A model of fedragon/tiff-parser (package tiff): the header decoder, the *)
(* wanted-set, the directory collector, the value resolver, Parse and      *)
(* ReadThumbnail, run against byte-exact TIFF images.                      *)
(*                                                                         *)
(* The source is a sequence of bytes with one read cursor.  Go slices are  *)
(* 0-based and TLA+ sequences 1-based: buffer[a:b] is SubSeq(buffer,a+1,b).*)
(***************************************************************************)
EXTENDS Integers, Sequences, FiniteSets, TLC

VARIABLES
    file,       \* the description the image was written from (ground truth)
    src,        \* the bytes of the random-access source
    pos,        \* the read cursor of the source
    parser,     \* the session: NoParser, or byteOrder and firstIFDOffset
    Defaults,   \* the package-level mapping table every session refers to
    last,       \* what the last operation was given and what it returned
    snap,       \* a remembered earlier Parse (its request, mapping, result)
    calls,      \* the Parse calls in progress, one per goroutine, step by step
    puts        \* a wanted-set on its own, and the identifiers Put into it

vars == <<file, src, pos, parser, Defaults, last, snap, calls, puts>>

-----------------------------------------------------------------------------
(* Program constants                                                       *)

EntryLength == 12

ImageWidth == 256
ImageHeight == 257
BitsPerSample == 258
Compression == 259
Make == 271
Model == 272
Exif == 34665
GPSInfo == 34853
ExposureTime == 33434
FNumber == 33437
ISO == 34855
DateTimeOriginal == 36867
OffsetTimeOriginal == 36881
MakerNotes == 37500
GPSLatitude == 2
GPSLongitude == 4
ThumbnailOffset == 513
ThumbnailLength == 514

DataType_UByte == 1
DataType_String == 2
DataType_UShort == 3
DataType_ULong == 4
DataType_URational == 5
DataType_Byte == 6
DataType_UByte_Sequence == 7
DataType_Short == 8
DataType_Long == 9
DataType_Rational == 10

Group_IFD0 == 0
Group_IFD1 == 1
Group_Exif == 2
Group_GPSInfo == 3

intelByteOrder == 18761
motorolaByteOrder == 19789
magicNumberBigEndian == 42
magicNumberLittleEndian == 10752
orfMagicNumberBigEndian == 20306
orfMagicNumberLittleEndian == 21071

\* var Defaults = map[EntryID]Group{...}: the table as the package initialises it
DefaultsTable ==
    [id \in {ImageWidth, ImageHeight, BitsPerSample, Compression, Make, Model,
             Exif, GPSInfo, ExposureTime, FNumber, ISO, DateTimeOriginal,
             OffsetTimeOriginal, GPSLatitude, GPSLongitude} |->
        IF id \in {ExposureTime, FNumber, ISO, DateTimeOriginal, OffsetTimeOriginal}
        THEN Group_Exif
        ELSE IF id \in {GPSLatitude, GPSLongitude} THEN Group_GPSInfo
        ELSE Group_IFD0]

-----------------------------------------------------------------------------
(* Errors.  Go's nil error is ErrNil.                                      *)

ErrNil == "nil"
ErrEOF == "EOF"
ErrUnexpectedEOF == "unexpected EOF"
ErrIO == "read/seek failure"
ErrUnknownEndianness == "unknown endianness"
ErrUnknownMagicNumber == "unknown magic number"
ErrIFDNotFound == "exif IFD not found"
ErrThumbnailOffset == "thumbnail offset not found"
ErrThumbnailLength == "thumbnail length not found"

IOErrors == {ErrEOF, ErrUnexpectedEOF, ErrIO}

-----------------------------------------------------------------------------
(* encoding/binary: fixed-width integers in a byte order                   *)

LittleEndian == "LittleEndian"
BigEndian == "BigEndian"
NoByteOrder == "nil"

Pow2_8 == 2^8
Pow2_15 == 2^15
Pow2_16 == 2^16

\* A uint32, and an int64 offset computed from one, is the pair of its high
\* part and its low 16 bits: [hi |-> h, lo |-> l] is the number h * 2^16 + l.
\* (TLC's integers are 32 bits wide; the pair keeps all 32 bits of a
\* uint32 and the sums the code forms in int64.)
W(n) == [hi |-> n \div Pow2_16, lo |-> n % Pow2_16]
WAdd(a, n) ==
    [hi |-> a.hi + (a.lo + n) \div Pow2_16, lo |-> (a.lo + n) % Pow2_16]
WMul(a, k) ==
    [hi |-> a.hi * k + (a.lo * k) \div Pow2_16, lo |-> (a.lo * k) % Pow2_16]
WLess(a, b) == a.hi < b.hi \/ (a.hi = b.hi /\ a.lo < b.lo)
\* the number itself, when it is below 2^30
IsSmall(a) == a.hi < 2^14
Small(a) == a.hi * Pow2_16 + a.lo

\* byteOrder.Uint16(b)
Uint16(bo, b) ==
    IF bo = LittleEndian THEN b[1] + Pow2_8 * b[2] ELSE Pow2_8 * b[1] + b[2]

\* a faulty Uint32: little-endian whatever the byte order
Uint32Little(bo, b) == [hi |-> b[3] + Pow2_8 * b[4], lo |-> b[1] + Pow2_8 * b[2]]

\* byteOrder.Uint32(b)
Uint32(bo, b) ==
    IF bo = LittleEndian
    THEN [hi |-> b[3] + Pow2_8 * b[4], lo |-> b[1] + Pow2_8 * b[2]]
    ELSE [hi |-> Pow2_8 * b[1] + b[2], lo |-> Pow2_8 * b[3] + b[4]]

\* the Go conversions uint16(x), byte(x), int16(x), int32(x) of a uint32 x
ToUint16(x) == x.lo
ToByte(x) == x.lo % Pow2_8
ToInt16(x) == IF x.lo >= Pow2_15 THEN x.lo - Pow2_16 ELSE x.lo
ToInt32(x) ==
    IF x.hi >= Pow2_15 THEN (x.hi - Pow2_16) * Pow2_16 + x.lo ELSE x.hi * Pow2_16 + x.lo
\* int16(u) of a uint16 u
Int16Of(u) == IF u >= Pow2_15 THEN u - Pow2_16 ELSE u

-----------------------------------------------------------------------------
(* The io.ReadSeeker.  A reader value rd carries the cursor, the number of *)
(* Seek/Read calls made so far, the call that is to fail (0: none) and the *)
(* log of the calls.                                                       *)

NewReader(at, failAt) == [pos |-> at, ops |-> 0, failAt |-> failAt, log |-> <<>>]

\* p.reader.Seek(offset, io.SeekStart)
Seek(rd, offset) ==
    IF rd.ops + 1 = rd.failAt
    THEN [rd  |-> [rd EXCEPT !.ops = @ + 1,
                             !.log = Append(@, [op |-> "seek", at |-> offset, n |-> W(0), ok |-> FALSE])],
          err |-> ErrIO]
    ELSE [rd  |-> [rd EXCEPT !.ops = @ + 1, !.pos = offset,
                             !.log = Append(@, [op |-> "seek", at |-> offset, n |-> W(0), ok |-> TRUE])],
          err |-> ErrNil]

\* io.ReadFull(p.reader, buffer) with len(buffer) = n (a pair, as the cursor
\* and every offset is).  A buffer of length 0
\* is filled without a Read call; a short source gives EOF (nothing read) or
\* ErrUnexpectedEOF (some bytes read).
ReadFull(bytes, rd, n) ==
    IF n = W(0) THEN [rd |-> rd, buf |-> <<>>, err |-> ErrNil]
    ELSE IF rd.ops + 1 = rd.failAt
    THEN [rd  |-> [rd EXCEPT !.ops = @ + 1,
                             !.log = Append(@, [op |-> "read", at |-> rd.pos, n |-> n, ok |-> FALSE])],
          buf |-> <<>>, err |-> ErrIO]
    ELSE IF ~WLess(rd.pos, W(Len(bytes)))
    THEN [rd  |-> [rd EXCEPT !.ops = @ + 1,
                             !.log = Append(@, [op |-> "read", at |-> rd.pos, n |-> n, ok |-> FALSE])],
          buf |-> <<>>, err |-> ErrEOF]
    ELSE IF ~IsSmall(n) \/ Small(rd.pos) + Small(n) > Len(bytes)
    THEN [rd  |-> [rd EXCEPT !.ops = @ + 1, !.pos = W(Len(bytes)),
                             !.log = Append(@, [op |-> "read", at |-> rd.pos, n |-> n, ok |-> FALSE])],
          buf |-> <<>>, err |-> ErrUnexpectedEOF]
    ELSE [rd  |-> [rd EXCEPT !.ops = @ + 1, !.pos = WAdd(@, Small(n)),
                             !.log = Append(@, [op |-> "read", at |-> rd.pos, n |-> n, ok |-> TRUE])],
          buf |-> SubSeq(bytes, Small(rd.pos) + 1, Small(rd.pos) + Small(n)),
          err |-> ErrNil]

-----------------------------------------------------------------------------
(* Header decoder                                                          *)

\* a faulty readEndianness: every marker but the Intel one is big-endian
readEndiannessLenient(with, buffer) ==
    IF Uint16(with, buffer) = intelByteOrder
    THEN [byteOrder |-> LittleEndian, err |-> ErrNil]
    ELSE [byteOrder |-> BigEndian, err |-> ErrNil]

\* readEndianness, reading the marker with byte order `with`
readEndiannessWith(with, buffer) ==
    LET value == Uint16(with, buffer) IN
    IF value = intelByteOrder THEN [byteOrder |-> LittleEndian, err |-> ErrNil]
    ELSE IF value = motorolaByteOrder THEN [byteOrder |-> BigEndian, err |-> ErrNil]
    ELSE [byteOrder |-> NoByteOrder, err |-> ErrUnknownEndianness]

\* readEndianness(buffer): value := binary.LittleEndian.Uint16(buffer)
readEndianness(buffer) == readEndiannessWith(LittleEndian, buffer)

\* a faulty validateMagicNumber: the ORF magic numbers are unknown
validateTiffMagicNumber(byteOrder, buffer) ==
    IF Uint16(byteOrder, buffer) \notin {magicNumberBigEndian, magicNumberLittleEndian}
    THEN ErrUnknownMagicNumber
    ELSE ErrNil

\* validateMagicNumber(byteOrder, buffer)
validateMagicNumber(byteOrder, buffer) ==
    LET magicNumber == Uint16(byteOrder, buffer) IN
    IF /\ magicNumber # magicNumberBigEndian
       /\ magicNumber # magicNumberLittleEndian
       /\ magicNumber # orfMagicNumberBigEndian
       /\ magicNumber # orfMagicNumberLittleEndian
    THEN ErrUnknownMagicNumber
    ELSE ErrNil

NoParser == [ok |-> FALSE, byteOrder |-> NoByteOrder, firstIFDOffset |-> W(0)]

\* a faulty NewParser: the result of the header read is not looked at, and
\* the header is decoded from the buffer as the read left it
NewParserHeedless(bytes, rd) ==
    LET h == ReadFull(bytes, rd, W(8))
        header == [i \in 1..8 |-> IF h.err \in {ErrNil, ErrUnexpectedEOF} /\ i <= Len(bytes)
                                  THEN bytes[i] ELSE 0]
        e == readEndianness(SubSeq(header, 1, 2))
    IN  IF e.err # ErrNil THEN [p |-> NoParser, err |-> e.err, rd |-> h.rd]
        ELSE
        LET m == validateMagicNumber(e.byteOrder, SubSeq(header, 3, 4)) IN
        IF m # ErrNil THEN [p |-> NoParser, err |-> m, rd |-> h.rd]
        ELSE [p   |-> [ok |-> TRUE, byteOrder |-> e.byteOrder,
                       firstIFDOffset |-> Uint32(e.byteOrder, SubSeq(header, 5, 8))],
              err |-> ErrNil, rd |-> h.rd]

\* NewParser(r): the parser (or NoParser), the error and the reader after it
NewParserOf(bytes, rd) ==
    LET h == ReadFull(bytes, rd, W(8)) IN
    IF h.err # ErrNil THEN [p |-> NoParser, err |-> h.err, rd |-> h.rd]
    ELSE
    LET header == h.buf
        e == readEndianness(SubSeq(header, 1, 2))
    IN  IF e.err # ErrNil THEN [p |-> NoParser, err |-> e.err, rd |-> h.rd]
        ELSE
        LET m == validateMagicNumber(e.byteOrder, SubSeq(header, 3, 4)) IN
        IF m # ErrNil THEN [p |-> NoParser, err |-> m, rd |-> h.rd]
        ELSE [p   |-> [ok |-> TRUE, byteOrder |-> e.byteOrder,
                       firstIFDOffset |-> Uint32(e.byteOrder, SubSeq(header, 5, 8))],
              err |-> ErrNil, rd |-> h.rd]

-----------------------------------------------------------------------------
(* Wanted-set: a set of entry IDs and the largest ID put into it           *)

\* newWanted() with no IDs: an empty map, max at its zero value
newWanted == [ids |-> {}, max |-> 0]

\* a faulty Put: the maximum is left as it was
PutNoMax(we, id) == [ids |-> we.ids \cup {id}, max |-> we.max]

\* (we *wanted) Put(id)
Put(we, id) == [ids |-> we.ids \cup {id}, max |-> IF id > we.max THEN id ELSE we.max]

\* a faulty Contains: every identifier is wanted
ContainsAny(we, id) == TRUE

\* (we *wanted) Contains(id)
Contains(we, id) == id \in we.ids

\* a faulty Max: larger than every identifier, so that no scan stops early
MaxOfAll(we) == Pow2_16

\* (we *wanted) Max()
Max(we) == we.max

\* a faulty Empty: no set is empty
EmptyNever(we) == FALSE

\* (we *wanted) Empty()
Empty(we) == Cardinality(we.ids) = 0

\* newWanted(ids...): Put of every id, in order
RECURSIVE newWantedOf(_, _)
newWantedOf(ids, we) ==
    IF ids = <<>> THEN we ELSE newWantedOf(Tail(ids), Put(we, Head(ids)))

-----------------------------------------------------------------------------
(* Value resolver.  An EntryValue is the record of its populated fields:   *)
(* EntryValue{} is the record with no field.                               *)

EntryValueZero == <<>>

\* the `count` 16-bit units of buffer, in file order
RECURSIVE DecodeUnits(_, _, _, _)
DecodeUnits(bo, buffer, size, i) ==
    IF i * size >= Len(buffer) THEN <<>>
    ELSE <<(IF size = 2 THEN Uint16(bo, SubSeq(buffer, i * size + 1, i * size + size))
                        ELSE Uint32(bo, SubSeq(buffer, i * size + 1, i * size + size)))>>
         \o DecodeUnits(bo, buffer, size, i + 1)

\* a faulty bytes.TrimSuffix: the NUL terminator is kept
KeepSuffixNul(buffer) == buffer

\* bytes.TrimSuffix(buffer, []byte{0x0})
TrimSuffixNul(buffer) ==
    IF Len(buffer) > 0 /\ buffer[Len(buffer)] = 0
    THEN SubSeq(buffer, 1, Len(buffer) - 1)
    ELSE buffer

\* a faulty ReadAfter: the read is made whatever the Seek returned
ReadAnyway(bytes, s, n) == ReadFull(bytes, s.rd, n)

\* the pair of calls every read of the package is made of:
\*   if _, err := p.reader.Seek(offset, io.SeekStart); err != nil { return }
\*   if _, err := io.ReadFull(p.reader, buffer); err != nil { return }
\* s is the outcome of the Seek, n is len(buffer)
ReadAfter(bytes, s, n) ==
    IF s.err # ErrNil THEN [rd |-> s.rd, buf |-> <<>>, err |-> s.err]
    ELSE ReadFull(bytes, s.rd, n)

\* a faulty SeekRead: the read is made at the cursor, without the seek
ReadHere(bytes, rd, offset, n) == ReadFull(bytes, rd, n)

SeekRead(bytes, rd, offset, n) == ReadAfter(bytes, Seek(rd, offset), n)

\* what a read function returns when its Seek or ReadFull has failed
Unread(r) == [v |-> <<>>, err |-> r.err, rd |-> r.rd]

\* readString once the buffer r is read
stringOf(r) ==
    IF r.err # ErrNil THEN Unread(r)
    ELSE [v |-> TrimSuffixNul(r.buf), err |-> ErrNil, rd |-> r.rd]

\* a faulty readString: a string that fits the 4 bytes of the payload is
\* taken from the payload, without a read
readStringFitting(bytes, p, rd, length, offset) ==
    IF WLess(length, W(5))
    THEN [v   |-> TrimSuffixNul(SubSeq(
                    IF p.byteOrder = LittleEndian
                    THEN <<offset.lo % Pow2_8, offset.lo \div Pow2_8,
                           offset.hi % Pow2_8, offset.hi \div Pow2_8>>
                    ELSE <<offset.hi \div Pow2_8, offset.hi % Pow2_8,
                           offset.lo \div Pow2_8, offset.lo % Pow2_8>>,
                    1, Small(length))),
          err |-> ErrNil, rd |-> rd]
    ELSE stringOf(SeekRead(bytes, rd, offset, length))

\* (p *Parser) readString(length, offset)
readString(bytes, p, rd, length, offset) ==
    stringOf(SeekRead(bytes, rd, offset, length))

\* readUints16 and readUints32 once the buffer r is read; size is 2 or 4
uintsOf(p, size, r) ==
    IF r.err # ErrNil THEN Unread(r)
    ELSE [v |-> DecodeUnits(p.byteOrder, r.buf, size, 0), err |-> ErrNil, rd |-> r.rd]

\* a faulty readUints16: units that fit the 4 bytes of the payload are taken
\* from the payload, without a read
readUints16Fitting(bytes, p, rd, length, offset) ==
    IF WLess(length, W(3))
    THEN [v   |-> SubSeq(IF p.byteOrder = LittleEndian THEN <<offset.lo, offset.hi>>
                                                       ELSE <<offset.hi, offset.lo>>,
                         1, Small(length)),
          err |-> ErrNil, rd |-> rd]
    ELSE uintsOf(p, 2, SeekRead(bytes, rd, offset, WMul(length, 2)))

\* (p *Parser) readUints16(length, offset)
readUints16(bytes, p, rd, length, offset) ==
    uintsOf(p, 2, SeekRead(bytes, rd, offset, WMul(length, 2)))

\* readInts16 once readUints16 has returned u
ints16Of(u) ==
    IF u.err # ErrNil THEN u
    ELSE [u EXCEPT !.v = [i \in 1..Len(u.v) |-> Int16Of(u.v[i])]]

\* (p *Parser) readInts16(length, offset)
readInts16(bytes, p, rd, length, offset) ==
    ints16Of(readUints16(bytes, p, rd, length, offset))

\* (p *Parser) readUints32(length, offset)
readUints32(bytes, p, rd, length, offset) ==
    uintsOf(p, 4, SeekRead(bytes, rd, offset, WMul(length, 4)))

\* readInts32 once readUints32 has returned u
ints32Of(u) ==
    IF u.err # ErrNil THEN u
    ELSE [u EXCEPT !.v = [i \in 1..Len(u.v) |-> ToInt32(u.v[i])]]

\* (p *Parser) readInts32(length, offset)
readInts32(bytes, p, rd, length, offset) ==
    ints32Of(readUints32(bytes, p, rd, length, offset))

\* a faulty urationalOf: the denominator is taken to come first
urationalSwapped(p, r) ==
    IF r.err # ErrNil THEN Unread(r)
    ELSE [v   |-> [Numerator   |-> Uint32(p.byteOrder, SubSeq(r.buf, 5, 8)),
                   Denominator |-> Uint32(p.byteOrder, SubSeq(r.buf, 1, 4))],
          err |-> ErrNil, rd |-> r.rd]

\* readURational once the buffer r is read
urationalOf(p, r) ==
    IF r.err # ErrNil THEN Unread(r)
    ELSE [v   |-> [Numerator   |-> Uint32(p.byteOrder, SubSeq(r.buf, 1, 4)),
                   Denominator |-> Uint32(p.byteOrder, SubSeq(r.buf, 5, 8))],
          err |-> ErrNil, rd |-> r.rd]

\* (p *Parser) readURational(offset)
readURational(bytes, p, rd, offset) ==
    urationalOf(p, SeekRead(bytes, rd, offset, W(8)))

\* readRational once the buffer r is read
rationalOf(p, r) ==
    IF r.err # ErrNil THEN Unread(r)
    ELSE [v   |-> [Numerator   |-> ToInt32(Uint32(p.byteOrder, SubSeq(r.buf, 1, 4))),
                   Denominator |-> ToInt32(Uint32(p.byteOrder, SubSeq(r.buf, 5, 8)))],
          err |-> ErrNil, rd |-> r.rd]

\* (p *Parser) readRational(offset)
readRational(bytes, p, rd, offset) ==
    rationalOf(p, SeekRead(bytes, rd, offset, W(8)))

\* EntryValue{<field>: x.v} of a read x, or the read's error with EntryValue{}
Resolved(field, x) ==
    IF x.err # ErrNil THEN [value |-> EntryValueZero, err |-> x.err, rd |-> x.rd]
    ELSE [value |-> [f \in {field} |-> x.v], err |-> ErrNil, rd |-> x.rd]

\* (p *Parser) readValue(dt, length, rawValue): [value, err, rd]
readValue(bytes, p, rd, dt, length, rawValue) ==
    LET Inline(v) == [value |-> v, err |-> ErrNil, rd |-> rd] IN
    CASE dt = DataType_UByte -> Inline([UByte |-> ToByte(rawValue)])
      [] dt = DataType_String ->
            Resolved("String", readString(bytes, p, rd, length, rawValue))
      [] dt = DataType_UShort ->
            IF length = W(1) THEN Inline([Uint16 |-> ToUint16(rawValue)])
            ELSE Resolved("Uints16", readUints16(bytes, p, rd, length, rawValue))
      [] dt = DataType_ULong ->
            IF length = W(1) THEN Inline([Uint32 |-> rawValue])
            ELSE Resolved("Uints32", readUints32(bytes, p, rd, length, rawValue))
      [] dt = DataType_URational ->
            Resolved("URational", readURational(bytes, p, rd, rawValue))
      [] dt = DataType_Byte -> Inline([Byte |-> ToByte(rawValue)])
      [] dt = DataType_Short ->
            IF length = W(1) THEN Inline([Int16 |-> ToInt16(rawValue)])
            ELSE Resolved("Ints16", readInts16(bytes, p, rd, length, rawValue))
      [] dt = DataType_Long ->
            IF length = W(1) THEN Inline([Int32 |-> ToInt32(rawValue)])
            ELSE Resolved("Ints32", readInts32(bytes, p, rd, length, rawValue))
      [] dt = DataType_Rational ->
            Resolved("Rational", readRational(bytes, p, rd, rawValue))
      [] OTHER -> Inline(EntryValueZero)

-----------------------------------------------------------------------------
(* Directory collector                                                     *)

\* a faulty MapPut: the entry is stored under the next key
MapPutNext(m, k, e) == [j \in DOMAIN m \cup {k + 1} |-> IF j = k + 1 THEN e ELSE m[j]]

\* entries[id] = e
MapPut(m, k, e) == [j \in DOMAIN m \cup {k} |-> IF j = k THEN e ELSE m[j]]

\* what collect returns: the map (empty when nil), the error, the reader after
\* the call and the identifiers of the records it has read, in order
Collected(entries, err, rd, scanned) ==
    [entries |-> entries, err |-> err, rd |-> rd, scanned |-> scanned]

RECURSIVE collectLoop(_, _, _, _, _, _, _, _, _)
RECURSIVE collectEntry(_, _, _, _, _, _, _, _, _)
RECURSIVE collectValue(_, _, _, _, _, _, _, _, _, _)

\* a faulty collectValue: the loop is left before the record is stored
collectValueBreakFirst(bytes, p, wanted, i, numEntries, offset, entries, seen, e, v) ==
    IF v.err # ErrNil THEN Collected(<<>>, v.err, v.rd, seen)
    ELSE IF e.ID >= Max(wanted) THEN Collected(entries, ErrNil, v.rd, seen)
    ELSE collectLoop(bytes, p, v.rd, wanted, i + 1, numEntries,
                     WAdd(offset, EntryLength),
                     IF Contains(wanted, e.ID)
                     THEN MapPut(entries, e.ID, [e EXCEPT !.Value = v.value])
                     ELSE entries,
                     seen)

\* the end of one iteration, once the record e is decoded and v is its value
\* (or the error of reading it):
\*   entries[id] = Entry{...};  if id >= wanted.Max() { break };  offset += EntryLength
collectValue(bytes, p, wanted, i, numEntries, offset, entries, seen, e, v) ==
    LET found == IF Contains(wanted, e.ID)
                 THEN MapPut(entries, e.ID, [e EXCEPT !.Value = v.value])
                 ELSE entries
    IN  IF v.err # ErrNil THEN Collected(<<>>, v.err, v.rd, seen)
        ELSE IF e.ID >= Max(wanted) THEN Collected(found, ErrNil, v.rd, seen)
        ELSE collectLoop(bytes, p, v.rd, wanted, i + 1, numEntries,
                         WAdd(offset, EntryLength), found, seen)

\* one iteration, once the 12 bytes r of the record are read
collectEntry(bytes, p, wanted, i, numEntries, offset, entries, scanned, r) ==
    IF r.err # ErrNil THEN Collected(<<>>, r.err, r.rd, scanned)
    ELSE
    LET buffer   == r.buf
        id       == Uint16(p.byteOrder, SubSeq(buffer, 1, 2))
        dt       == Uint16(p.byteOrder, SubSeq(buffer, 3, 4))
        length   == Uint32(p.byteOrder, SubSeq(buffer, 5, 8))
        rawValue == Uint32(p.byteOrder, SubSeq(buffer, 9, 12))
    IN  collectValue(bytes, p, wanted, i, numEntries, offset, entries,
                     Append(scanned, id),
                     [ID |-> id, DataType |-> dt, Length |-> length,
                      RawValue |-> rawValue, Value |-> EntryValueZero],
                     IF Contains(wanted, id)
                     THEN readValue(bytes, p, r.rd, dt, length, rawValue)
                     ELSE [value |-> EntryValueZero, err |-> ErrNil, rd |-> r.rd])

\* the loop of collect: for i := 0; i < numEntries; i++ { ... }
collectLoop(bytes, p, rd, wanted, i, numEntries, offset, entries, scanned) ==
    IF ~(i < numEntries) THEN Collected(entries, ErrNil, rd, scanned)
    ELSE collectEntry(bytes, p, wanted, i, numEntries, offset, entries, scanned,
                      SeekRead(bytes, rd, offset, W(EntryLength)))

\* collect once the 2 bytes r of the entry count are read
collectFrom(bytes, p, wanted, startingOffset, r) ==
    IF r.err # ErrNil THEN Collected(<<>>, r.err, r.rd, <<>>)
    ELSE collectLoop(bytes, p, r.rd, wanted, 0, Uint16(p.byteOrder, r.buf),
                     WAdd(startingOffset, 2), <<>>, <<>>)

\* (p *Parser) collect(startingOffset, wanted): [entries, err, rd, scanned]
collect(bytes, p, rd, startingOffset, wanted) ==
    collectFrom(bytes, p, wanted, startingOffset,
                SeekRead(bytes, rd, startingOffset, W(2)))

\* a directory that is not scanned: no entries, the reader untouched
NotCollected(rd) == Collected(<<>>, ErrNil, rd, <<>>)

-----------------------------------------------------------------------------
(* Group router: Parse                                                     *)

\* a faulty Partition: every identifier is put into the root wanted-set
PartitionRootOnly(mapping, ids, w) == [w EXCEPT !.ifd0 = newWantedOf(ids, @)]

\* the three wanted-sets built by the loop over ids
RECURSIVE Partition(_, _, _)
Partition(mapping, ids, w) ==
    IF ids = <<>> THEN w
    ELSE
    LET id == Head(ids)
        ok == id \in DOMAIN mapping
        next ==
            IF ~ok THEN w
            ELSE IF mapping[id] = Group_IFD0
            THEN [w EXCEPT !.ifd0 = Put(@, id)]
            ELSE IF mapping[id] = Group_Exif
            THEN [w EXCEPT !.ifd0 = Put(@, Exif), !.exif = Put(@, id)]
            ELSE IF mapping[id] = Group_GPSInfo
            THEN [w EXCEPT !.ifd0 = Put(@, GPSInfo), !.gpsInfo = Put(@, id)]
            ELSE w
    IN  Partition(mapping, Tail(ids), next)

\* for key, value := range from { entries[key] = value }
Merge(entries, from) ==
    [k \in DOMAIN entries \cup DOMAIN from |->
        IF k \in DOMAIN from THEN from[k] ELSE entries[k]]

\* a faulty EmitRoot: the pointer entries are emitted too
EmitAll(ifd0Entries) == ifd0Entries

\* for key, value := range ifd0Entries { if key != Exif && key != GPSInfo {...} }
EmitRoot(ifd0Entries) ==
    [k \in {key \in DOMAIN ifd0Entries : key # Exif /\ key # GPSInfo} |-> ifd0Entries[k]]

\* the record of one directory scan: where, for which identifiers, the
\* identifiers it read, what it returned
Scan(offset, wanted, c) ==
    [offset |-> offset, wanted |-> wanted.ids, scanned |-> c.scanned,
     entries |-> c.entries, err |-> c.err]

\* what Parse returns: the map (empty when nil), the error, the reader after
\* the call, the directory scans made and the root scan's entries
Parsed(entries, err, rd, scans, ifd0) ==
    [entries |-> entries, err |-> err, rd |-> rd, scans |-> scans,
     ifd0Entries |-> ifd0.entries]

\* a faulty PointerOf: the count of the pointer entry, not its payload
LengthOf(ifd0, id) == ifd0.entries[id].Length

\* the RawValue of the root entry `id`, the offset of a sub-directory
PointerOf(ifd0, id) == ifd0.entries[id].RawValue

\* Parse from the scan gps of the GPSInfo directory on (or no scan, when
\* nothing is wanted from it); scans are the scans made before
parseGPSInfo(w, ifd0, exif, scans, gps) ==
    LET all == IF Empty(w.gpsInfo) THEN scans
               ELSE Append(scans, Scan(PointerOf(ifd0, GPSInfo), w.gpsInfo, gps))
    IN  IF gps.err # ErrNil THEN Parsed(<<>>, gps.err, gps.rd, all, ifd0)
        ELSE Parsed(Merge(Merge(EmitRoot(ifd0.entries), exif.entries), gps.entries),
                    ErrNil, gps.rd, all, ifd0)

\* Parse from the scan exif of the Exif directory on (or no scan)
parseExif(bytes, p, w, ifd0, exif) ==
    LET root == <<Scan(p.firstIFDOffset, w.ifd0, ifd0)>>
        scans == IF Empty(w.exif) THEN root
                 ELSE Append(root, Scan(PointerOf(ifd0, Exif), w.exif, exif))
    IN  IF exif.err # ErrNil THEN Parsed(<<>>, exif.err, exif.rd, scans, ifd0)
        ELSE IF Empty(w.gpsInfo) THEN parseGPSInfo(w, ifd0, exif, scans, NotCollected(exif.rd))
        ELSE IF GPSInfo \notin DOMAIN ifd0.entries
        THEN Parsed(<<>>, ErrIFDNotFound, exif.rd, scans, ifd0)
        ELSE parseGPSInfo(w, ifd0, exif, scans,
                          collect(bytes, p, exif.rd, PointerOf(ifd0, GPSInfo), w.gpsInfo))

\* Parse from the scan ifd0 of the root directory on
parseIFD0(bytes, p, w, ifd0) ==
    LET root == <<Scan(p.firstIFDOffset, w.ifd0, ifd0)>> IN
    IF ifd0.err # ErrNil THEN Parsed(<<>>, ifd0.err, ifd0.rd, root, ifd0)
    ELSE IF Empty(w.exif) THEN parseExif(bytes, p, w, ifd0, NotCollected(ifd0.rd))
    ELSE IF Exif \notin DOMAIN ifd0.entries
    THEN Parsed(<<>>, ErrIFDNotFound, ifd0.rd, root, ifd0)
    ELSE parseExif(bytes, p, w, ifd0,
                   collect(bytes, p, ifd0.rd, PointerOf(ifd0, Exif), w.exif))

\* Parse once the wanted-sets w are built
parseWanted(bytes, p, rd, w) ==
    parseIFD0(bytes, p, w, collect(bytes, p, rd, p.firstIFDOffset, w.ifd0))

\* (p *Parser) Parse(ids...)
Parse(bytes, p, mapping, rd, ids) ==
    parseWanted(bytes, p, rd,
                Partition(mapping, ids,
                          [ifd0 |-> newWanted, exif |-> newWanted, gpsInfo |-> newWanted]))

-----------------------------------------------------------------------------
(* Resource extractor: ReadThumbnail                                       *)

\* what ReadThumbnail returns: the bytes (empty when nil), the error, the reader
Thumbnail(buffer, err, rd) == [buffer |-> buffer, err |-> err, rd |-> rd]

\* ReadThumbnail once the thumbnail's bytes r are read
thumbnailOf(r) ==
    IF r.err # ErrNil THEN Thumbnail(<<>>, r.err, r.rd)
    ELSE Thumbnail(r.buf, ErrNil, r.rd)

\* ReadThumbnail once the second directory is collected as c
thumbnailAt(bytes, c) ==
    IF c.err # ErrNil THEN Thumbnail(<<>>, c.err, c.rd) ELSE
    LET entries == c.entries
        hasOff == ThumbnailOffset \in DOMAIN entries
        hasLen == ThumbnailLength \in DOMAIN entries
        offOk == hasOff => "Uint32" \in DOMAIN entries[ThumbnailOffset].Value
        lenOk == hasLen => "Uint32" \in DOMAIN entries[ThumbnailLength].Value
        thumbnailOffset == IF hasOff /\ offOk THEN entries[ThumbnailOffset].Value.Uint32 ELSE W(0)
        thumbnailLength == IF hasLen /\ lenOk THEN entries[ThumbnailLength].Value.Uint32 ELSE W(0)
    IN
    IF ~offOk THEN Thumbnail(<<>>, ErrThumbnailOffset, c.rd)
    ELSE IF ~lenOk THEN Thumbnail(<<>>, ErrThumbnailLength, c.rd)
    ELSE thumbnailOf(SeekRead(bytes, c.rd, thumbnailOffset, thumbnailLength))

\* ReadThumbnail once the 4 bytes r of the root directory's next pointer are read
thumbnailIFD1(bytes, p, r) ==
    IF r.err # ErrNil THEN Thumbnail(<<>>, r.err, r.rd)
    ELSE thumbnailAt(bytes,
                     collect(bytes, p, r.rd, Uint32(p.byteOrder, r.buf),
                             newWantedOf(<<ThumbnailOffset, ThumbnailLength>>, newWanted)))

\* a faulty thumbnailSkip: the 2 bytes of the count are not skipped
thumbnailSkipEntries(bytes, p, r) ==
    IF r.err # ErrNil THEN Thumbnail(<<>>, r.err, r.rd)
    ELSE thumbnailIFD1(bytes, p,
                       SeekRead(bytes, r.rd,
                                WAdd(p.firstIFDOffset, Uint16(p.byteOrder, r.buf) * 12),
                                W(4)))

\* ReadThumbnail once the 2 bytes r of the root directory's count are read
thumbnailSkip(bytes, p, r) ==
    IF r.err # ErrNil THEN Thumbnail(<<>>, r.err, r.rd)
    ELSE thumbnailIFD1(bytes, p,
                       SeekRead(bytes, r.rd,
                                WAdd(p.firstIFDOffset, 2 + Uint16(p.byteOrder, r.buf) * 12),
                                W(4)))

\* (p *Parser) ReadThumbnail(): [buffer, err, rd]
ReadThumbnail(bytes, p, rd) ==
    thumbnailSkip(bytes, p, SeekRead(bytes, rd, p.firstIFDOffset, W(2)))

-----------------------------------------------------------------------------
(* Images.  An image is written from a description: the header fields, the *)
(* records of the root, Exif, GPSInfo and second directory, and the        *)
(* thumbnail bytes.  A record description d has                            *)
(*   d.id, d.dt, d.cnt  identifier, datatype code, count                   *)
(*   d.at               where the payload comes from:                      *)
(*                        "inline" the value d.val itself, zero-extended   *)
(*                        "data"   the offset of the record's data, which  *)
(*                                 holds d.val in the file's byte order    *)
(*                        "exif", "gps", "ifd1", "root", "thumb"           *)
(*                                 the offset of that directory or blob    *)
(*                        "abs"    the pair d.val, an offset that need     *)
(*                                 not lie inside the file                 *)
(*   d.val              the value the record is meant to carry             *)

\* byteOrder.PutUint16 / PutUint32
PutUint16(bo, v) ==
    IF bo = LittleEndian THEN <<v % 256, (v \div 256) % 256>>
    ELSE <<(v \div 256) % 256, v % 256>>

PutUint32(bo, v) ==
    IF bo = LittleEndian
    THEN <<v.lo % 256, v.lo \div 256, v.hi % 256, v.hi \div 256>>
    ELSE <<v.hi \div 256, v.hi % 256, v.lo \div 256, v.lo % 256>>

\* the 32-bit pattern of an integer of -2^31 .. 2^31 - 1 (two's complement)
Bits32(v) == [hi |-> ((v - (v % Pow2_16)) \div Pow2_16) % Pow2_16, lo |-> v % Pow2_16]

RECURSIVE Flatten(_)
Flatten(ss) == IF ss = <<>> THEN <<>> ELSE Head(ss) \o Flatten(Tail(ss))

Rec(id, dt, cnt, at, val) == [id |-> id, dt |-> dt, cnt |-> cnt, at |-> at, val |-> val]

\* the bytes of a record's data: the value's units in the file's byte order,
\* a string followed by its NUL terminator
DataOf(bo, d) ==
    IF d.at # "data" THEN <<>>
    ELSE IF d.dt = DataType_String THEN d.val \o <<0>>
    ELSE IF d.dt \in {DataType_UShort, DataType_Short}
    THEN Flatten([i \in 1..Len(d.val) |-> PutUint16(bo, d.val[i] % Pow2_16)])
    ELSE IF d.dt \in {DataType_ULong, DataType_Long}
    THEN Flatten([i \in 1..Len(d.val) |-> PutUint32(bo, Bits32(d.val[i]))])
    ELSE IF d.dt \in {DataType_URational, DataType_Rational}
    THEN PutUint32(bo, Bits32(d.val[1])) \o PutUint32(bo, Bits32(d.val[2]))
    ELSE d.val

\* the 32-bit payload of an inline value: the value's bit pattern, zero-extended
InlinePayload(d) ==
    IF d.dt \in {DataType_UByte, DataType_Byte} THEN W(d.val % Pow2_8)
    ELSE IF d.dt \in {DataType_UShort, DataType_Short} THEN W(d.val % Pow2_16)
    ELSE Bits32(d.val)

\* The bodies of the images: their directories and thumbnail bytes

Body(root, exif, gps, ifd1, thumb) ==
    [root |-> root, exif |-> exif, gps |-> gps, ifd1 |-> ifd1, thumb |-> thumb]

\* a CR2-like image: 16-bit dimensions, both sub-directories, a thumbnail
Cr2Body ==
    Body(<< Rec(ImageWidth, DataType_UShort, 1, "inline", 5184),
            Rec(BitsPerSample, DataType_UShort, 3, "data", <<8, 8, 8>>),
            Rec(Make, DataType_String, 6, "data", <<67, 97, 110, 111, 110>>),
            Rec(Exif, DataType_ULong, 1, "exif", 0),
            Rec(GPSInfo, DataType_ULong, 1, "gps", 0) >>,
         << Rec(ExposureTime, DataType_URational, 1, "data", <<1, 40>>),
            Rec(MakerNotes, DataType_UByte_Sequence, 4, "inline", 0) >>,
         << Rec(GPSLatitude, DataType_URational, 1, "data", <<52, 1>>) >>,
         << Rec(ThumbnailOffset, DataType_ULong, 1, "thumb", 0),
            Rec(ThumbnailLength, DataType_ULong, 1, "inline", 4) >>,
         <<255, 216, 255, 217>>)

\* an ORF-like image: 32-bit dimensions, padded make, no GPSInfo, no thumbnail
OrfBody ==
    Body(<< Rec(ImageWidth, DataType_ULong, 1, "inline", 4640),
            Rec(BitsPerSample, DataType_UShort, 1, "inline", 16),
            Rec(Make, DataType_String, 5, "data", <<79, 76, 32, 32>>),
            Rec(Exif, DataType_ULong, 1, "exif", 0) >>,
         << Rec(ExposureTime, DataType_URational, 1, "data", <<1, 200>>) >>,
         <<>>, <<>>, <<>>)

\* the signed datatypes and the byte datatypes
SignedBody ==
    Body(<< Rec(ImageWidth, DataType_Long, 1, "inline", -3),
            Rec(ImageHeight, DataType_Short, 1, "inline", -2),
            Rec(Make, DataType_Short, 3, "data", <<-2, 7, 300>>),
            Rec(GPSInfo, DataType_ULong, 1, "gps", 0) >>,
         <<>>,
         << Rec(GPSLatitude, DataType_Rational, 1, "data", <<-1, 3>>) >>,
         << Rec(ThumbnailOffset, DataType_UShort, 1, "inline", 9) >>,
         <<>>)

\* a directory with identifiers 5, 10, 20, 30
SparseBody ==
    Body(<< Rec(5, DataType_UByte, 1, "inline", 200),
            Rec(10, DataType_ULong, 2, "data", <<70000, 1>>),
            Rec(20, DataType_Long, 2, "data", <<-70000, 1>>),
            Rec(30, DataType_Byte, 1, "inline", 7) >>,
         <<>>, <<>>, <<>>, <<>>)

\* malformed: the root directory is not in ascending identifier order
UnsortedBody ==
    Body(<< Rec(Exif, DataType_ULong, 1, "exif", 0),
            Rec(Make, DataType_String, 3, "data", <<79, 76>>),
            Rec(ImageWidth, DataType_UShort, 1, "inline", 640) >>,
         << Rec(MakerNotes, DataType_UShort, 1, "inline", 1),
            Rec(ExposureTime, DataType_URational, 1, "data", <<1, 8>>) >>,
         <<>>, <<>>, <<>>)

\* malformed: the Exif pointer leads outside the file (and the image is cut
\* inside the make string)
DanglingBody ==
    Body(<< Rec(ImageWidth, DataType_UShort, 1, "inline", 640),
            Rec(Make, DataType_String, 6, "data", <<67, 97, 110, 111, 110>>),
            Rec(Exif, DataType_ULong, 1, "abs", [hi |-> 65535, lo |-> 65520]) >>,
         <<>>, <<>>, <<>>, <<>>)

\* malformed: a sub-directory pointer leads back to the root directory
LoopingBody ==
    Body(<< Rec(ImageWidth, DataType_UShort, 1, "inline", 640),
            Rec(ExposureTime, DataType_UShort, 1, "inline", 3),
            Rec(Exif, DataType_ULong, 1, "root", 0) >>,
         <<>>, <<>>, <<>>, <<>>)

TinyBody ==
    Body(<< Rec(ImageWidth, DataType_ULong, 1, "inline", 1) >>, <<>>, <<>>, <<>>, <<>>)

\* every datatype code, with the counts and payloads that tell an inline
\* value from an external one: a 16-bit scalar whose payload has bits above
\* the low 16, pairs of 16-bit units (4 bytes of data), counts 0 and 2 of
\* 32-bit units and of rationals, strings of count 1, 3 and 4 holding NULs,
\* an undefined byte sequence (7), and bytes under more than 8 payload bits
ValuesBody ==
    Body(<< Rec(ImageWidth, DataType_UShort, 1, "abs", [hi |-> 5184, lo |-> 0]),
            Rec(ImageHeight, DataType_UShort, 2, "data", <<7, 40000>>),
            Rec(BitsPerSample, DataType_Short, 2, "data", <<-1, 2>>),
            Rec(Compression, DataType_ULong, 0, "data", <<>>),
            Rec(Make, DataType_String, 3, "data", <<65, 0>>),
            Rec(Model, DataType_String, 4, "data", <<0, 66, 32>>),
            Rec(Exif, DataType_ULong, 1, "exif", 0),
            Rec(GPSInfo, DataType_ULong, 1, "gps", 0) >>,
         << Rec(ExposureTime, DataType_URational, 2, "data", <<1, 70000>>),
            Rec(FNumber, DataType_Rational, 0, "data", <<-1, 3>>),
            Rec(ISO, DataType_Long, 2, "data", <<-70000, 1>>),
            Rec(DateTimeOriginal, DataType_String, 1, "data", <<>>),
            Rec(OffsetTimeOriginal, DataType_UByte_Sequence, 4, "inline", 0) >>,
         << Rec(GPSLatitude, DataType_UByte, 1, "abs", [hi |-> 1, lo |-> 513]),
            Rec(GPSLongitude, DataType_Byte, 1, "abs", [hi |-> 0, lo |-> 255]) >>,
         <<>>, <<>>)

\* an image with a thumbnail whose second directory is ifd1
ThumbBody(ifd1) ==
    Body(<< Rec(ImageWidth, DataType_UShort, 1, "inline", 160),
            Rec(Make, DataType_String, 3, "data", <<79, 76>>) >>,
         <<>>, <<>>, ifd1, <<255, 216, 255, 217>>)

BodyOf(f) ==
    CASE f.name \in {"cr2", "truncated"} -> Cr2Body
      [] f.name = "values"   -> ValuesBody
      [] f.name = "nooffset" ->
            ThumbBody(<< Rec(ThumbnailLength, DataType_ULong, 1, "inline", 4) >>)
      [] f.name = "nolength" ->
            ThumbBody(<< Rec(ThumbnailOffset, DataType_ULong, 1, "thumb", 0) >>)
      [] f.name = "notags"   ->
            ThumbBody(<< Rec(ImageWidth, DataType_UShort, 1, "inline", 160) >>)
      [] f.name = "orf"      -> OrfBody
      [] f.name = "signed"   -> SignedBody
      [] f.name = "sparse"   -> SparseBody
      [] f.name = "unsorted" -> UnsortedBody
      [] f.name = "dangling" -> DanglingBody
      [] f.name = "looping"  -> LoopingBody
      [] OTHER               -> TinyBody

DirSize(recs) == 2 + EntryLength * Len(recs) + 4

AllRecs(f) == BodyOf(f).root \o BodyOf(f).exif \o BodyOf(f).gps \o BodyOf(f).ifd1

\* where the parts of the image lie
RootOffset(f) == 8 + f.pad
ExifOffset(f) == RootOffset(f) + DirSize(BodyOf(f).root)
GpsOffset(f) == ExifOffset(f) + DirSize(BodyOf(f).exif)
Ifd1Offset(f) == GpsOffset(f) + DirSize(BodyOf(f).gps)
DataOffset(f) == Ifd1Offset(f) + DirSize(BodyOf(f).ifd1)

RECURSIVE DataLenBefore(_, _, _)
DataLenBefore(bo, recs, k) ==
    IF k <= 1 THEN 0
    ELSE DataLenBefore(bo, recs, k - 1) + Len(DataOf(bo, recs[k - 1]))

ThumbOffset(f) == DataOffset(f) + DataLenBefore(f.bo, AllRecs(f), Len(AllRecs(f)) + 1)

\* the payload of the k-th record of AllRecs(f)
PayloadOf(f, k) ==
    LET d == AllRecs(f)[k] IN
    CASE d.at = "inline" -> InlinePayload(d)
      [] d.at = "data"   -> W(DataOffset(f) + DataLenBefore(f.bo, AllRecs(f), k))
      [] d.at = "root"   -> W(RootOffset(f))
      [] d.at = "exif"   -> W(ExifOffset(f))
      [] d.at = "gps"    -> W(GpsOffset(f))
      [] d.at = "ifd1"   -> W(Ifd1Offset(f))
      [] d.at = "thumb"  -> W(ThumbOffset(f))
      [] OTHER           -> d.val

\* a directory: count, the records, the offset of the next directory.
\* `base` is the number of records of AllRecs(f) before this directory's.
DirBytes(f, recs, base, next) ==
    PutUint16(f.bo, Len(recs))
    \o Flatten([i \in 1..Len(recs) |->
            PutUint16(f.bo, recs[i].id) \o PutUint16(f.bo, recs[i].dt)
            \o PutUint32(f.bo, W(recs[i].cnt)) \o PutUint32(f.bo, PayloadOf(f, base + i))])
    \o PutUint32(f.bo, W(next))

FirstOffset(f) == IF f.first.at = "root" THEN W(RootOffset(f)) ELSE f.first.off

Whole(f) ==
    LET b == BodyOf(f) IN
    f.marker \o f.magic \o PutUint32(f.bo, FirstOffset(f))
    \o [i \in 1..f.pad |-> 0]
    \o DirBytes(f, b.root, 0, IF b.ifd1 = <<>> THEN 0 ELSE Ifd1Offset(f))
    \o DirBytes(f, b.exif, Len(b.root), 0)
    \o DirBytes(f, b.gps, Len(b.root) + Len(b.exif), 0)
    \o DirBytes(f, b.ifd1, Len(b.root) + Len(b.exif) + Len(b.gps), 0)
    \o Flatten([k \in 1..Len(AllRecs(f)) |-> DataOf(f.bo, AllRecs(f)[k])])
    \o b.thumb

\* the image's bytes; f.cut bytes are missing from its end
Build(f) == SubSeq(Whole(f), 1, Len(Whole(f)) - f.cut)

-----------------------------------------------------------------------------
(* The images the model runs on.  An image f is named by its header fields *)
(* (f.bo, f.marker, f.magic, f.first, f.pad), the number f.cut of bytes    *)
(* missing from its end and the name f.name of its body.                   *)

MarkerOf(bo) == IF bo = LittleEndian THEN <<73, 73>> ELSE <<77, 77>>

Image(name, bo, pad) ==
    [name |-> name, bo |-> bo, marker |-> MarkerOf(bo),
     magic |-> PutUint16(bo, magicNumberBigEndian), pad |-> pad,
     first |-> [at |-> "root", off |-> W(0)], cut |-> 0]

ByteOrders == {LittleEndian, BigEndian}

WellFormedImages ==
    UNION {{Image("cr2", bo, 8), Image("signed", bo, 0), Image("sparse", bo, 0),
            [Image("orf", bo, 0) EXCEPT !.magic = PutUint16(bo, orfMagicNumberBigEndian)]}
           : bo \in ByteOrders}

\* the truncated image ends inside its GPSInfo directory
MalformedImages ==
    UNION {{Image("unsorted", bo, 0), Image("looping", bo, 0),
            [Image("dangling", bo, 0) EXCEPT !.cut = 2],
            [Image("truncated", bo, 8) EXCEPT !.cut = 60]}
           : bo \in ByteOrders}

\* headers: every marker and magic number over a few byte values,
\* first-directory offsets up to the largest 32-bit value, and sources that
\* end inside the header (6 bytes) or hold nothing
MarkerBytes == {0, 52, 73, 77}
MagicBytes == {0, 18, 42, 79, 82}
FirstOffsets ==
    {W(0), W(9), [hi |-> Pow2_15, lo |-> 0], [hi |-> Pow2_16 - 1, lo |-> Pow2_16 - 1]}

HeaderImages ==
    {[Image("marker", LittleEndian, 0) EXCEPT !.marker = <<a, b>>] :
        a \in MarkerBytes, b \in MarkerBytes}
    \cup {[Image("magic", bo, 0) EXCEPT !.magic = <<a, b>>] :
        bo \in ByteOrders, a \in MagicBytes, b \in MagicBytes}
    \cup {[Image("offset", bo, 0) EXCEPT !.first = [at |-> "abs", off |-> o]] :
        bo \in ByteOrders, o \in FirstOffsets}
    \cup {[Image("short", LittleEndian, 0) EXCEPT !.cut = c] : c \in {38, 44}}

Images == WellFormedImages \cup MalformedImages \cup HeaderImages

-----------------------------------------------------------------------------
(* Requests and mapping overrides                                          *)

MaxIds == 2

RequestIDs == {ImageWidth, Make, Exif, ExposureTime, GPSLatitude, MakerNotes, 10}

RECURSIVE SortedSeq(_)
SortedSeq(S) ==
    IF S = {} THEN <<>>
    ELSE LET m == CHOOSE x \in S : \A y \in S : x <= y
         IN  <<m>> \o SortedSeq(S \ {m})

\* the identifier lists a caller passes to Parse
Requests == {SortedSeq(S) : S \in {T \in SUBSET RequestIDs : Cardinality(T) <= MaxIds}}

\* the tables a caller passes to WithMapping
Overrides == { [id \in {10, MakerNotes} |-> IF id = 10 THEN Group_IFD0 ELSE Group_Exif] }

-----------------------------------------------------------------------------
(* State machine                                                           *)

\* the Entry an accessor is called on: ID, DataType, Length, RawValue
NoEntry == [ID |-> 0, DataType |-> 0, Length |-> W(0), RawValue |-> W(0)]

\* last.entry and last.value are the receiver and the value of an accessor call
NoResult ==
    [op |-> "init", ids |-> <<>>, failAt |-> 0, mapping |-> <<>>,
     entries |-> <<>>, err |-> ErrNil, scans |-> <<>>, ifd0Entries |-> <<>>,
     buffer |-> <<>>, log |-> <<>>, entry |-> NoEntry, value |-> <<>>]

NoSnap ==
    [set |-> FALSE, between |-> FALSE, ids |-> <<>>, mapping |-> <<>>,
     entries |-> <<>>, err |-> ErrNil]

InitOn(images) ==
    /\ file \in images
    /\ src = Build(file)
    /\ pos = W(0)
    /\ parser = NoParser
    /\ Defaults = DefaultsTable
    /\ last = NoResult
    /\ snap = NoSnap
    /\ calls = <<>>
    /\ puts = [we |-> newWanted, ids |-> <<>>]

Init == InitOn(Images)

\* p, err := NewParser(r), once, on the fresh source
NewParser ==
    /\ last.op = "init"
    /\ LET n == NewParserOf(src, NewReader(pos, 0)) IN
       /\ parser' = n.p
       /\ pos' = n.rd.pos
       /\ last' = [NoResult EXCEPT !.op = "NewParser", !.err = n.err, !.log = n.rd.log]
    /\ UNCHANGED <<file, src, Defaults, snap, calls, puts>>

\* p.WithMapping(m): p.mapping is the package's Defaults table itself
WithMappingOf(mapping, m) ==
    [k \in DOMAIN mapping \cup DOMAIN m |-> IF k \in DOMAIN m THEN m[k] ELSE mapping[k]]

WithMapping(m) ==
    /\ parser.ok
    /\ Defaults' = WithMappingOf(Defaults, m)
    /\ last' = [NoResult EXCEPT !.op = "WithMapping", !.mapping = m]
    /\ UNCHANGED <<file, src, pos, parser, snap, calls, puts>>

\* entries, err := p.Parse(ids...); the failAt-th seek or read of the call
\* fails (0: none does)
ParseCall(ids, failAt) ==
    /\ parser.ok
    /\ LET r == Parse(src, parser, Defaults, NewReader(pos, failAt), ids) IN
       /\ pos' = r.rd.pos
       /\ last' = [NoResult EXCEPT !.op = "Parse", !.ids = ids, !.failAt = failAt,
                                   !.mapping = Defaults,
                                   !.entries = r.entries, !.err = r.err,
                                   !.scans = r.scans, !.ifd0Entries = r.ifd0Entries,
                                   !.log = r.rd.log]
    /\ UNCHANGED <<file, src, parser, Defaults, calls, puts>>

\* thumbnail, err := p.ReadThumbnail()
ReadThumbnailCall(failAt) ==
    /\ parser.ok
    /\ LET r == ReadThumbnail(src, parser, NewReader(pos, failAt)) IN
       /\ pos' = r.rd.pos
       /\ last' = [NoResult EXCEPT !.op = "ReadThumbnail", !.failAt = failAt,
                                   !.buffer = r.buffer, !.err = r.err,
                                   !.log = r.rd.log]
    /\ UNCHANGED <<file, src, parser, Defaults, calls, puts>>

ParseOp == \E ids \in Requests : ParseCall(ids, 0) /\ UNCHANGED snap
ThumbnailOp == ReadThumbnailCall(0) /\ UNCHANGED snap
WithMappingOp == \E m \in Overrides : WithMapping(m)

Next == NewParser \/ WithMappingOp \/ ParseOp \/ ThumbnailOp

Spec == Init /\ [][Next]_vars

-----------------------------------------------------------------------------
(* Repeated calls: one Parse is remembered in snap, with whether another   *)
(* operation has run since                                                 *)

IdemImages == {f \in Images : f.name \in {"cr2", "looping", "truncated"}}

IdemRequests ==
    {<<ImageWidth>>, <<Make, ExposureTime>>, <<GPSLatitude, ExposureTime>>, <<MakerNotes>>}

InitIdem == InitOn(IdemImages)

\* a Parse whose request, mapping and result are remembered
ParseSnap ==
    \E ids \in IdemRequests :
        /\ ParseCall(ids, 0)
        /\ snap' = [set |-> TRUE, between |-> FALSE, ids |-> ids, mapping |-> Defaults,
                    entries |-> last'.entries, err |-> last'.err]

\* a later Parse: one with other identifiers counts as an operation between
ParseAgain ==
    \E ids \in IdemRequests :
        /\ ParseCall(ids, 0)
        /\ snap' = IF snap.set /\ ids # snap.ids THEN [snap EXCEPT !.between = TRUE] ELSE snap

ThumbnailBetween ==
    /\ ReadThumbnailCall(0)
    /\ snap' = IF snap.set THEN [snap EXCEPT !.between = TRUE] ELSE snap

NextIdem == NewParser \/ WithMappingOp \/ ParseSnap \/ ParseAgain \/ ThumbnailBetween

SpecIdem == InitIdem /\ [][NextIdem]_vars

-----------------------------------------------------------------------------
(* Failing sources: the failAt-th seek or read of a Parse fails            *)

MaxFail == 24

FaultImages ==
    {f \in Images : f.name = "cr2" \/ (f.name \in {"truncated", "dangling"} /\ f.bo = LittleEndian)}

FaultRequests == {<<Make>>, <<ImageWidth, ExposureTime>>, <<GPSLatitude, ExposureTime>>}

InitFault == InitOn(FaultImages)

FaultyParse ==
    \E ids \in FaultRequests, failAt \in 0..MaxFail : ParseCall(ids, failAt) /\ UNCHANGED snap

NextFault == NewParser \/ FaultyParse

SpecFault == InitFault /\ [][NextFault]_vars

-----------------------------------------------------------------------------
(* What an image holds, read off its description rather than its bytes     *)

\* the identifiers of a list
Ids(seq) == {seq[i] : i \in 1..Len(seq)}

HasRec(recs, id) == \E i \in 1..Len(recs) : recs[i].id = id
IndexOf(recs, id) == CHOOSE i \in 1..Len(recs) : recs[i].id = id

\* the pointer tag of a sub-directory group
PointerTag(g) == IF g = Group_Exif THEN Exif ELSE GPSInfo

\* which directory of the image holds group g: the root directory for
\* Group_IFD0, else the one the root's pointer record leads to ("none" when
\* there is no pointer record or it leads nowhere)
TargetOf(f, g) ==
    IF g = Group_IFD0 THEN (IF f.first.at = "root" THEN "root" ELSE "none")
    ELSE IF f.first.at # "root" \/ ~HasRec(BodyOf(f).root, PointerTag(g)) THEN "none"
    ELSE LET d == BodyOf(f).root[IndexOf(BodyOf(f).root, PointerTag(g))]
         IN  IF d.at \in {"root", "exif", "gps"} THEN d.at ELSE "none"

\* the records of directory t, and the number of records of AllRecs before them
RecsAt(f, t) ==
    CASE t = "root" -> BodyOf(f).root
      [] t = "exif" -> BodyOf(f).exif
      [] t = "gps"  -> BodyOf(f).gps
      [] OTHER      -> <<>>

BaseAt(f, t) ==
    CASE t = "exif" -> Len(BodyOf(f).root)
      [] t = "gps"  -> Len(BodyOf(f).root) + Len(BodyOf(f).exif)
      [] OTHER      -> 0

\* the datatype codes for which the package decodes a value
Decodable ==
    {DataType_UByte, DataType_String, DataType_UShort, DataType_ULong,
     DataType_URational, DataType_Byte, DataType_Short, DataType_Long,
     DataType_Rational}

\* the value a record was written to carry, in the variant its datatype code
\* and count select
ValueOf(d, payload) ==
    CASE d.at \notin {"inline", "data"} -> [Uint32 |-> payload]
      [] d.dt = DataType_UByte     -> [UByte |-> d.val]
      [] d.dt = DataType_String    -> [String |-> d.val]
      [] d.dt = DataType_UShort    ->
            IF d.cnt = 1 THEN [Uint16 |-> d.val] ELSE [Uints16 |-> d.val]
      [] d.dt = DataType_ULong     ->
            IF d.cnt = 1 THEN [Uint32 |-> W(d.val)]
            ELSE [Uints32 |-> [i \in 1..Len(d.val) |-> W(d.val[i])]]
      [] d.dt = DataType_URational ->
            [URational |-> [Numerator |-> W(d.val[1]), Denominator |-> W(d.val[2])]]
      [] d.dt = DataType_Byte      -> [Byte |-> d.val]
      [] d.dt = DataType_Short     ->
            IF d.cnt = 1 THEN [Int16 |-> d.val] ELSE [Ints16 |-> d.val]
      [] d.dt = DataType_Long      ->
            IF d.cnt = 1 THEN [Int32 |-> d.val] ELSE [Ints32 |-> d.val]
      [] d.dt = DataType_Rational  ->
            [Rational |-> [Numerator |-> d.val[1], Denominator |-> d.val[2]]]
      [] OTHER -> EntryValueZero

\* the Entry of the record with identifier id in directory t of image f
EntryOf(f, t, id) ==
    LET i == IndexOf(RecsAt(f, t), id)
        d == RecsAt(f, t)[i]
        payload == PayloadOf(f, BaseAt(f, t) + i)
    IN  [ID |-> d.id, DataType |-> d.dt, Length |-> W(d.cnt), RawValue |-> payload,
         Value |-> ValueOf(d, payload)]

\* e and x are the same entry: identifier, datatype code, count, payload and,
\* for the datatype codes the package decodes, value
SameEntry(e, x) ==
    /\ e.ID = x.ID /\ e.DataType = x.DataType
    /\ e.Length = x.Length /\ e.RawValue = x.RawValue
    /\ x.DataType \in Decodable => e.Value = x.Value

Mapped(mapping, id, g) == id \in DOMAIN mapping /\ mapping[id] = g

\* the groups Parse routes identifiers to
ParseGroups == {Group_IFD0, Group_Exif, Group_GPSInfo}

\* the identifiers of ids that the mapping sends to group g
WantedOf(mapping, ids, g) == {id \in Ids(ids) : Mapped(mapping, id, g)}

\* the root directory holds the pointer record of every sub-directory group
\* some requested identifier is mapped to
PointersPresent(f, mapping, ids) ==
    \A g \in {Group_Exif, Group_GPSInfo} :
        WantedOf(mapping, ids, g) # {} => HasRec(RecsAt(f, TargetOf(f, Group_IFD0)), PointerTag(g))

\* every requested identifier, the pointer tags apart, that is mapped to a
\* group and present in that group's directory is in the map with its entry
AllPresentReturned(f, mapping, ids, entries) ==
    \A id \in Ids(ids) \ {Exif, GPSInfo} : \A g \in ParseGroups :
        (Mapped(mapping, id, g) /\ HasRec(RecsAt(f, TargetOf(f, g)), id)) =>
            /\ id \in DOMAIN entries
            /\ SameEntry(entries[id], EntryOf(f, TargetOf(f, g), id))

-----------------------------------------------------------------------------
(* Parse on well-formed files                                              *)

-----------------------------------------------------------------------------
(* Missing fields, sub-directories, early termination, pointer entries     *)

\* no seek or read of the last call failed
NoIOFailure == \A i \in 1..Len(last.log) : last.log[i].ok

\* the root scan of the last Parse produced the pointer entry of every
\* sub-directory group a requested identifier is mapped to
PointersProduced ==
    \A g \in {Group_Exif, Group_GPSInfo} :
        WantedOf(last.mapping, last.ids, g) # {} => PointerTag(g) \in DOMAIN last.ifd0Entries

\* id is missing: it has no entry in the mapping table, or it is mapped to a
\* group whose directory has no record of it
Missing(f, mapping, id) ==
    \/ id \notin DOMAIN mapping
    \/ \E g \in ParseGroups : Mapped(mapping, id, g) /\ ~HasRec(RecsAt(f, TargetOf(f, g)), id)

\* C2: Parse never reports a missing field as an error: when no seek or read
\* fails and every needed sub-directory pointer is present, Parse returns
\* without error, and the map has no key for a requested identifier that has
\* no entry in the mapping table or is absent from its group's directory.
C2_MissingFieldsOmitted ==
    (last.op = "Parse" /\ NoIOFailure /\ PointersProduced) =>
        /\ last.err = ErrNil
        /\ \A id \in Ids(last.ids) :
                Missing(file, last.mapping, id) => id \notin DOMAIN last.entries

\* identifier 10, which the root directory [5, 10, 20, 30] holds but the
\* mapping table lacks, and ImageWidth, mapped to the root directory that has
\* no record of it, are asked together: an empty map and no error
C2_Witness ==
    /\ last.op = "Parse" /\ NoIOFailure /\ PointersProduced
    /\ file.name = "sparse"
    /\ last.ids = <<10, ImageWidth>>
    /\ 10 \notin DOMAIN last.mapping
    /\ Missing(file, last.mapping, ImageWidth)
    /\ last.err = ErrNil /\ last.entries = <<>>

\* the scan of the last Parse made for sub-directory group g, if any: the
\* root scan is the first, the Exif scan the second, the GPSInfo scan the
\* one after it
ScanOf(g) ==
    IF g = Group_Exif THEN 2
    ELSE IF WantedOf(last.mapping, last.ids, Group_Exif) = {} THEN 2 ELSE 3

\* what C3 asks of group g: without the pointer entry Parse fails with the
\* sub-directory-not-found error and no map; with it, Parse scans the
\* directory at the pointer's offset with g's wanted-set and merges what
\* the scan matched
SubDirectoryHandled(g) ==
    IF PointerTag(g) \notin DOMAIN last.ifd0Entries
    THEN last.err = ErrIFDNotFound /\ last.entries = <<>>
    ELSE /\ Len(last.scans) >= ScanOf(g)
         /\ LET s == last.scans[ScanOf(g)] IN
            /\ s.offset = last.ifd0Entries[PointerTag(g)].RawValue
            /\ s.wanted = WantedOf(last.mapping, last.ids, g)
            /\ last.err = ErrNil =>
                    \A id \in DOMAIN s.entries :
                        id \in DOMAIN last.entries /\ last.entries[id] = s.entries[id]

StepsBeforeSucceeded(g) ==
    /\ last.scans[1].err = ErrNil
    /\ (g = Group_GPSInfo /\ WantedOf(last.mapping, last.ids, Group_Exif) # {}) =>
            /\ Exif \in DOMAIN last.ifd0Entries
            /\ Len(last.scans) >= 2 /\ last.scans[2].err = ErrNil

IsPrefixOfRecs(seq, recs) ==
    /\ Len(seq) <= Len(recs)
    /\ \A i \in 1..Len(seq) : seq[i] = recs[i].id

\* the largest identifier of a wanted-set (0 for the empty one)
MaxOf(S) == IF S = {} THEN 0 ELSE CHOOSE m \in S : \A x \in S : x <= m

\* the reads of directory records in the log of the last call
EntryReads ==
    {i \in 1..Len(last.log) : last.log[i].op = "read" /\ last.log[i].n = W(EntryLength)}

\* C4: a directory scan reads the entries in stored order and reads none after
\* the first whose identifier is greater than or equal to the wanted-set's
\* maximum, wanted or not; for the directory [5, 10, 20, 30] and the
\* wanted-set {10} it makes at most 3 entry reads and never reads entry 30.
C4_EarlyTermination ==
    last.op = "Parse" =>
        /\ \A k \in 1..Len(last.scans) :
            LET s == last.scans[k] IN
            /\ \A i \in 1..(Len(s.scanned) - 1) : s.scanned[i] < MaxOf(s.wanted)
            /\ (k = 1 /\ file.first.at = "root") =>
                    IsPrefixOfRecs(s.scanned, BodyOf(file).root)
        /\ (file.name = "sparse" /\ last.scans[1].wanted = {10}) =>
            /\ Cardinality(EntryReads) <= 3
            /\ 30 \notin Ids(last.scans[1].scanned)

\* identifier 10, mapped to the root directory by WithMapping, is asked of the
\* image whose root directory is [5, 10, 20, 30]
C4_Witness ==
    /\ last.op = "Parse"
    /\ file.name = "sparse"
    /\ last.scans[1].wanted = {10}
    /\ last.scans[1].scanned = <<5, 10>>
    /\ 10 \in DOMAIN last.entries

\* C6: the map Parse returns never has the Exif or the GPSInfo pointer tag
\* collected from the root directory, whatever was requested; every other
\* entry the root scan collected is in the map of a Parse that succeeds.
C6_PointerTagsNotReturned ==
    last.op = "Parse" =>
        /\ Exif \notin DOMAIN last.entries
        /\ GPSInfo \notin DOMAIN last.entries
        /\ last.err = ErrNil =>
                \A id \in DOMAIN last.ifd0Entries \ {Exif, GPSInfo} :
                    id \in DOMAIN last.entries /\ last.entries[id] = last.ifd0Entries[id]

\* the Exif pointer tag itself is requested, with another root entry
C6_Witness ==
    /\ last.op = "Parse"
    /\ last.ids = <<ImageWidth, Exif>>
    /\ Exif \in DOMAIN last.ifd0Entries
    /\ last.err = ErrNil
    /\ DOMAIN last.entries = {ImageWidth}


-----------------------------------------------------------------------------
(* The header                                                              *)

\* NewParser has run on a source that holds a whole header
HeaderRead == last.op # "init" /\ Len(src) >= 8

\* C8: the marker 0x4949 selects little-endian and 0x4D4D big-endian for the
\* reads that follow; any other two bytes make readEndianness, and so
\* NewParser, fail with the unknown-endianness error and give no byte order;
\* the outcome is the same whichever byte order reads the marker, and depends
\* on nothing but the header's bytes.
C8_ByteOrderDetection ==
    HeaderRead =>
        LET m == SubSeq(src, 1, 2) IN
        /\ readEndiannessWith(BigEndian, m) = readEndiannessWith(LittleEndian, m)
        /\ m = <<73, 73>> =>
                /\ readEndianness(m) = [byteOrder |-> LittleEndian, err |-> ErrNil]
                /\ parser.ok => parser.byteOrder = LittleEndian
        /\ m = <<77, 77>> =>
                /\ readEndianness(m) = [byteOrder |-> BigEndian, err |-> ErrNil]
                /\ parser.ok => parser.byteOrder = BigEndian
        /\ m \notin {<<73, 73>>, <<77, 77>>} =>
                /\ readEndianness(m) = [byteOrder |-> NoByteOrder, err |-> ErrUnknownEndianness]
                /\ last.op = "NewParser" /\ last.err = ErrUnknownEndianness
                /\ parser = NoParser
        /\ parser = NewParserOf(SubSeq(src, 1, 8), NewReader(W(0), 0)).p

\* a marker made of one byte of each recognised marker is refused
C8_Witness ==
    /\ last.op = "NewParser"
    /\ SubSeq(src, 1, 2) = <<73, 77>>
    /\ last.err = ErrUnknownEndianness
    /\ parser = NoParser

\* header bytes 2-3 as a 16-bit number in byte order bo
MagicValue(bo, b) == IF bo = LittleEndian THEN b[1] + 256 * b[2] ELSE 256 * b[1] + b[2]

\* C9: header bytes 2-3, read with the byte order resolved from bytes 0-1, are
\* accepted exactly when the 16-bit value is one of 0x002A, 0x2A00, 0x4F52,
\* 0x524F; for every other value validateMagicNumber returns the
\* unknown-magic-number error and NewParser returns no parser.
C9_MagicNumberValidation ==
    (HeaderRead /\ SubSeq(src, 1, 2) \in {<<73, 73>>, <<77, 77>>}) =>
        LET bo == IF SubSeq(src, 1, 2) = <<73, 73>> THEN LittleEndian ELSE BigEndian
            value == MagicValue(bo, SubSeq(src, 3, 4))
            accepted == value \in {42, 10752, 20306, 21071}
        IN  /\ accepted <=> validateMagicNumber(bo, SubSeq(src, 3, 4)) = ErrNil
            /\ accepted <=> parser.ok
            /\ ~accepted =>
                    /\ validateMagicNumber(bo, SubSeq(src, 3, 4)) = ErrUnknownMagicNumber
                    /\ last.op = "NewParser" /\ last.err = ErrUnknownMagicNumber
                    /\ parser = NoParser

\* the big-endian ORF magic number in a little-endian file is accepted
C9_Witness ==
    /\ last.op = "NewParser"
    /\ SubSeq(src, 1, 4) = <<73, 73, 82, 79>>
    /\ parser.ok

\* header bytes 4-7 as a 32-bit number in the byte order the marker m selects
OffsetValue(m, b) ==
    IF m = <<73, 73>>
    THEN [hi |-> b[3] + 256 * b[4], lo |-> b[1] + 256 * b[2]]
    ELSE [hi |-> 256 * b[1] + b[2], lo |-> 256 * b[3] + b[4]]

\* C10: for a header that passes both checks NewParser records as
\* first-directory offset the unsigned 32-bit value of header bytes 4-7 in the
\* resolved byte order (the offset the image was written with, when its marker
\* tells the byte order it was written in), and every later Parse starts its
\* root directory scan at that absolute offset.
C10_FirstDirectoryOffset ==
    /\ parser.ok =>
            /\ parser.firstIFDOffset = OffsetValue(SubSeq(src, 1, 2), SubSeq(src, 5, 8))
            /\ file.marker = MarkerOf(file.bo) => parser.firstIFDOffset = FirstOffset(file)
    /\ last.op = "Parse" =>
            /\ last.scans[1].offset = OffsetValue(SubSeq(src, 1, 2), SubSeq(src, 5, 8))
            /\ last.log[1].op = "seek"
            /\ last.log[1].at = OffsetValue(SubSeq(src, 1, 2), SubSeq(src, 5, 8))

\* a Parse on the big-endian image whose header gives the offset 2^32 - 1
C10_Witness ==
    /\ last.op = "Parse"
    /\ file.bo = BigEndian
    /\ SubSeq(src, 5, 8) = <<255, 255, 255, 255>>
    /\ parser.firstIFDOffset = [hi |-> 65535, lo |-> 65535]
    /\ last.log[1].at = [hi |-> 65535, lo |-> 65535]


-----------------------------------------------------------------------------
(* Repetition and failure                                                  *)

\* C5: two Parse calls with the same identifiers on one session, against the
\* same source and mapping, return equal results, whatever ran between them
\* and wherever that left the read cursor.
C5_ParseRepeatable ==
    (/\ last.op = "Parse"
     /\ snap.set
     /\ snap.ids = last.ids
     /\ snap.mapping = last.mapping) =>
        /\ last.entries = snap.entries
        /\ last.err = snap.err

\* a Parse is repeated with success after other operations have run
C5_Witness ==
    /\ last.op = "Parse"
    /\ snap.set /\ snap.between
    /\ snap.ids = last.ids /\ snap.mapping = last.mapping
    /\ last.err = ErrNil /\ last.entries # <<>>
    /\ pos # W(0)

\* C7: a seek or read that fails, at any stage of Parse, makes Parse return
\* that error at once with no map: what was collected is discarded, the
\* failed call is the last call made on the source (nothing is retried, no
\* later directory is scanned), and the scan it failed in is the last scan.
C7_FailureSurfaced ==
    last.op = "Parse" =>
        /\ ~NoIOFailure =>
            /\ last.err \in IOErrors
            /\ last.entries = <<>>
            /\ \A i \in 1..Len(last.log) : last.log[i].ok <=> i < Len(last.log)
            /\ last.scans[Len(last.scans)].err = last.err
            /\ \A k \in 1..(Len(last.scans) - 1) : last.scans[k].err = ErrNil
            /\ (last.failAt > 0 /\ Len(last.log) = last.failAt) => last.err = ErrIO
        /\ last.err \in IOErrors => ~NoIOFailure

\* the read of an external value (a rational of the Exif directory) fails
\* after the root scan has collected the image width
C7_Witness ==
    /\ last.op = "Parse"
    /\ last.failAt > 0 /\ Len(last.log) = last.failAt
    /\ Len(last.scans) = 2
    /\ ImageWidth \in DOMAIN last.ifd0Entries
    /\ last.log[Len(last.log)].op = "read" /\ last.log[Len(last.log)].n = W(8)
    /\ last.err = ErrIO /\ last.entries = <<>>

-----------------------------------------------------------------------------
(* Headers on short and failing sources: NewParser on every header image,  *)
(* with and without a failure of its one read                              *)

\* sources that end inside the header and whose marker or magic number is
\* not a recognised one
ShortHeaderImages ==
    {[Image("short", LittleEndian, 0) EXCEPT !.cut = 38, !.marker = <<0, 52>>],
     [Image("short", LittleEndian, 0) EXCEPT !.cut = 38, !.magic = <<18, 0>>],
     [Image("short", BigEndian, 0) EXCEPT !.cut = 37],
     [Image("short", BigEndian, 0) EXCEPT !.cut = 43]}

InitHeader == InitOn(HeaderImages \cup ShortHeaderImages)

\* NewParser on a source whose first read fails
FaultyNewParser ==
    /\ last.op = "init"
    /\ LET n == NewParserOf(src, NewReader(pos, 1)) IN
       /\ parser' = n.p
       /\ pos' = n.rd.pos
       /\ last' = [NoResult EXCEPT !.op = "NewParser", !.failAt = 1,
                                   !.err = n.err, !.log = n.rd.log]
    /\ UNCHANGED <<file, src, Defaults, snap, calls, puts>>

NextHeader == NewParser \/ FaultyNewParser

SpecHeader == InitHeader /\ [][NextHeader]_vars

\* the one read NewParser makes, of 8 bytes at the start, has failed
HeaderReadFailed ==
    /\ last.op = "NewParser"
    /\ last.log = <<[op |-> "read", at |-> W(0), n |-> W(8), ok |-> FALSE]>>

\* C11: when the source holds fewer than 8 bytes, or the header read fails,
\* NewParser returns no parser and the error of the read (EOF on an empty
\* source, unexpected EOF on 1 to 7 bytes, the I/O error of a failing read),
\* after that one read and nothing else; the error is never the one of the
\* byte-order check or of the magic-number check, whatever the bytes are.
C11_MalformedHeader ==
    (last.op = "NewParser" /\ (Len(src) < 8 \/ last.failAt = 1)) =>
        /\ parser = NoParser
        /\ HeaderReadFailed
        /\ last.err = (IF last.failAt = 1 THEN ErrIO
                       ELSE IF Len(src) = 0 THEN ErrEOF ELSE ErrUnexpectedEOF)
        /\ last.err \notin {ErrNil, ErrUnknownEndianness, ErrUnknownMagicNumber}

\* a 6-byte source whose marker is not a byte-order marker: the error is
\* the read's, not the byte-order check's
C11_Witness ==
    /\ last.op = "NewParser"
    /\ Len(src) = 6
    /\ SubSeq(src, 1, 2) = <<0, 52>>
    /\ last.err = ErrUnexpectedEOF
    /\ parser = NoParser

-----------------------------------------------------------------------------
(* Entry accessors: the methods of Entry that decode its value on demand   *)
(* from a Source.  A Source seeks and reads the parser's reader and        *)
(* decodes in the parser's byte order: s.SeekFromStart(offset) followed by *)
(* s.ReadInto(buffer) is SeekRead, s.Uint16 and s.Uint32 are Uint16 and    *)
(* Uint32 in p.byteOrder.                                                  *)

\* the accessors, and the error each one returns for an entry that is not of
\* its datatype
Accessors ==
    {"ReadString", "ReadUint16", "ReadUints16", "ReadUint32", "ReadUints32", "ReadURational"}

TypeError(a) ==
    CASE a = "ReadString"    -> "entry is not a string"
      [] a = "ReadUint16"    -> "entry is not a uint16"
      [] a = "ReadUints16"   -> "entry is not a []uint16"
      [] a = "ReadUint32"    -> "entry is not a uint32"
      [] a = "ReadUints32"   -> "entry is not a []uint32"
      [] a = "ReadURational" -> "entry is not a rational"

ErrLengthNotOne == "entry length is not 1"

\* what an accessor returns without touching the source
Returned(v, err, rd) == [v |-> v, err |-> err, rd |-> rd]

\* a faulty ReadString: the datatype is not looked at
ReadStringUntyped(bytes, p, rd, e) ==
    stringOf(SeekRead(bytes, rd, e.RawValue, e.Length))

\* (e Entry) ReadString(s Source)
ReadString(bytes, p, rd, e) ==
    IF e.DataType # DataType_String THEN Returned(<<>>, TypeError("ReadString"), rd)
    ELSE stringOf(SeekRead(bytes, rd, e.RawValue, e.Length))

\* a faulty ReadUint16: any count will do
ReadUint16AnyLength(bytes, p, rd, e) ==
    IF e.DataType # DataType_UShort THEN Returned(0, TypeError("ReadUint16"), rd)
    ELSE Returned(ToUint16(e.RawValue), ErrNil, rd)

\* (e Entry) ReadUint16()
ReadUint16(bytes, p, rd, e) ==
    IF e.DataType # DataType_UShort THEN Returned(0, TypeError("ReadUint16"), rd)
    ELSE IF e.Length # W(1) THEN Returned(0, ErrLengthNotOne, rd)
    ELSE Returned(ToUint16(e.RawValue), ErrNil, rd)

\* (e Entry) ReadUints16(s Source)
ReadUints16(bytes, p, rd, e) ==
    IF e.DataType # DataType_UShort THEN Returned(<<>>, TypeError("ReadUints16"), rd)
    ELSE IF e.Length = W(1) THEN Returned(<<ToUint16(e.RawValue)>>, ErrNil, rd)
    ELSE uintsOf(p, 2, SeekRead(bytes, rd, e.RawValue, WMul(e.Length, 2)))

\* (e Entry) ReadUint32()
ReadUint32(bytes, p, rd, e) ==
    IF e.DataType # DataType_ULong THEN Returned(W(0), TypeError("ReadUint32"), rd)
    ELSE IF e.Length # W(1) THEN Returned(W(0), ErrLengthNotOne, rd)
    ELSE Returned(e.RawValue, ErrNil, rd)

\* (e Entry) ReadUints32(s Source)
ReadUints32(bytes, p, rd, e) ==
    IF e.DataType # DataType_ULong THEN Returned(<<>>, TypeError("ReadUints32"), rd)
    ELSE IF e.Length = W(1) THEN Returned(<<e.RawValue>>, ErrNil, rd)
    ELSE uintsOf(p, 4, SeekRead(bytes, rd, e.RawValue, WMul(e.Length, 4)))

\* the two zeros ReadURational returns with an error
NoRational == [Numerator |-> W(0), Denominator |-> W(0)]

\* ReadURational once the buffer r is read
urationalRead(p, r) ==
    IF r.err # ErrNil THEN Returned(NoRational, r.err, r.rd)
    ELSE urationalOf(p, r)

\* (e Entry) ReadURational(s Source)
ReadURational(bytes, p, rd, e) ==
    IF e.DataType # DataType_URational THEN Returned(NoRational, TypeError("ReadURational"), rd)
    ELSE urationalRead(p, SeekRead(bytes, rd, e.RawValue, W(8)))

Access(a, bytes, p, rd, e) ==
    CASE a = "ReadString"    -> ReadString(bytes, p, rd, e)
      [] a = "ReadUint16"    -> ReadUint16(bytes, p, rd, e)
      [] a = "ReadUints16"   -> ReadUints16(bytes, p, rd, e)
      [] a = "ReadUint32"    -> ReadUint32(bytes, p, rd, e)
      [] a = "ReadUints32"   -> ReadUints32(bytes, p, rd, e)
      [] a = "ReadURational" -> ReadURational(bytes, p, rd, e)

-----------------------------------------------------------------------------
(* Values: Parse on the images that hold every datatype, and the accessors *)
(* on the entries Parse returned                                           *)

ValueImages == {Image("values", bo, 0) : bo \in ByteOrders}

ValueRequests ==
    {<<ImageWidth, ImageHeight>>, <<BitsPerSample, Compression>>, <<Make, Model>>,
     <<ExposureTime, FNumber>>, <<ISO, DateTimeOriginal>>, <<OffsetTimeOriginal>>,
     <<GPSLatitude, GPSLongitude>>}

\* the ID, DataType, Length and RawValue of the entries of a Parse result
ParsedEntries(entries) ==
    {[ID |-> entries[id].ID, DataType |-> entries[id].DataType,
      Length |-> entries[id].Length, RawValue |-> entries[id].RawValue] :
        id \in DOMAIN entries}

InitValues == InitOn(ValueImages)

ValuesParse == \E ids \in ValueRequests : ParseCall(ids, 0) /\ UNCHANGED snap

\* v, err := e.<accessor>(s), for an entry e of E
AccessorCall(E) ==
    /\ parser.ok
    /\ \E a \in Accessors, e \in E :
        LET r == Access(a, src, parser, NewReader(pos, 0), e) IN
        /\ pos' = r.rd.pos
        /\ last' = [NoResult EXCEPT !.op = a, !.entry = e, !.value = r.v,
                                    !.err = r.err, !.log = r.rd.log]
    /\ UNCHANGED <<file, src, parser, Defaults, snap, calls, puts>>

\* an accessor on an entry of the map the last Parse returned
ParsedAccess == AccessorCall(ParsedEntries(last.entries))

NextValues == NewParser \/ ValuesParse \/ ParsedAccess

SpecValues == InitValues /\ [][NextValues]_vars

-----------------------------------------------------------------------------
(* Accessors on entries the caller has made: every datatype code up to 12, *)
(* counts 0 to 2, an offset into the header and a payload with bits above  *)
(* the low 16 that lies beyond the end of the source                       *)

MaxDataType == 12
MadeLengths == {W(0), W(1), W(2)}
MadeRawValues == {W(4), [hi |-> 5184, lo |-> 1]}

MadeEntries ==
    {[ID |-> ImageWidth, DataType |-> dt, Length |-> n, RawValue |-> v] :
        dt \in 1..MaxDataType, n \in MadeLengths, v \in MadeRawValues}

InitAccessor == InitOn(ValueImages)

MadeAccess == AccessorCall(MadeEntries)

NextAccessor == NewParser \/ MadeAccess

SpecAccessor == InitAccessor /\ [][NextAccessor]_vars

-----------------------------------------------------------------------------
(* The accessors' checks                                                   *)

\* the datatype an accessor is for
AccessorType(a) ==
    CASE a = "ReadString" -> DataType_String
      [] a \in {"ReadUint16", "ReadUints16"} -> DataType_UShort
      [] a \in {"ReadUint32", "ReadUints32"} -> DataType_ULong
      [] a = "ReadURational" -> DataType_URational

\* the value an accessor returns with an error: "", 0, nil, 0, nil, (0, 0)
ZeroValue(a) ==
    CASE a \in {"ReadString", "ReadUints16", "ReadUints32"} -> <<>>
      [] a = "ReadUint16"    -> 0
      [] a = "ReadUint32"    -> W(0)
      [] a = "ReadURational" -> NoRational

\* C12: an accessor called on an entry whose datatype code is not the
\* accessor's returns its type-mismatch error and the zero value of its
\* result type, and has made no seek and no read of the source; so
\* ReadString on an unsigned 32-bit entry fails, whatever its count and
\* payload.
C12_TypeMismatch ==
    /\ (last.op \in Accessors /\ last.entry.DataType # AccessorType(last.op)) =>
            /\ last.err = TypeError(last.op)
            /\ last.log = <<>>
            /\ last.value = ZeroValue(last.op)
    /\ (last.op = "ReadString" /\ last.entry.DataType = DataType_ULong) =>
            /\ last.err = "entry is not a string"
            /\ last.value = <<>>

\* ReadString on an unsigned 32-bit entry whose payload is an offset the
\* source could be read at
C12_Witness ==
    /\ last.op = "ReadString"
    /\ last.entry.DataType = DataType_ULong
    /\ last.entry.RawValue = W(4)
    /\ last.entry.Length = W(2)
    /\ last.err = "entry is not a string"
    /\ last.log = <<>>

\* C13: ReadUint16 and ReadUint32 on an entry of their datatype whose count
\* is not 1 (0 included) return the length error and the value 0; with
\* count 1 they return the payload, ReadUint16 its low 16 bits, with no
\* error; neither makes a seek or a read of the source.
C13_ScalarLength ==
    (last.op \in {"ReadUint16", "ReadUint32"}
            /\ last.entry.DataType = AccessorType(last.op)) =>
        /\ last.log = <<>>
        /\ last.entry.Length # W(1) =>
                /\ last.err = ErrLengthNotOne
                /\ last.value = ZeroValue(last.op)
        /\ last.entry.Length = W(1) =>
                /\ last.err = ErrNil
                /\ last.op = "ReadUint32" => last.value = last.entry.RawValue
                /\ last.op = "ReadUint16" =>
                        /\ last.value = last.entry.RawValue.lo
                        /\ last.value \in 0..(Pow2_16 - 1)

\* ReadUint16 on an unsigned 16-bit entry of count 0
C13_Witness ==
    /\ last.op = "ReadUint16"
    /\ last.entry.DataType = DataType_UShort
    /\ last.entry.Length = W(0)
    /\ last.err = ErrLengthNotOne
    /\ last.value = 0

-----------------------------------------------------------------------------
(* Decoded values                                                          *)

\* the fields of EntryValue readValue fills for a datatype code
VariantsOf(dt) ==
    CASE dt = DataType_UByte     -> {"UByte"}
      [] dt = DataType_String    -> {"String"}
      [] dt = DataType_UShort    -> {"Uint16", "Uints16"}
      [] dt = DataType_ULong     -> {"Uint32", "Uints32"}
      [] dt = DataType_URational -> {"URational"}
      [] dt = DataType_Byte      -> {"Byte"}
      [] dt = DataType_Short     -> {"Int16", "Ints16"}
      [] dt = DataType_Long      -> {"Int32", "Ints32"}
      [] dt = DataType_Rational  -> {"Rational"}
      [] OTHER                   -> {}

\* the entries of the last Parse: the returned ones and the root scan's
ScannedEntries ==
    {last.entries[id] : id \in DOMAIN last.entries}
    \cup {last.ifd0Entries[id] : id \in DOMAIN last.ifd0Entries}

\* C14: every entry a Parse has produced, of any datatype code 1 to 10 (the
\* undefined byte sequence, 7, included), has exactly one field of its
\* Value populated.
C14_AsStated ==
    last.op = "Parse" =>
        \A e \in ScannedEntries :
            e.DataType \in 1..10 => Cardinality(DOMAIN e.Value) = 1

\* C14, for the codes readValue has a case for: one field, of the datatype
C14_DecodedVariant ==
    last.op = "Parse" =>
        \A e \in ScannedEntries :
            /\ e.DataType \in (1..10) \ {DataType_UByte_Sequence} =>
                    /\ Cardinality(DOMAIN e.Value) = 1
                    /\ DOMAIN e.Value \subseteq VariantsOf(e.DataType)
            /\ e.DataType = DataType_UByte_Sequence => e.Value = EntryValueZero

\* an entry of datatype 7 is returned with no field populated
C14_Witness ==
    /\ last.op = "Parse"
    /\ last.err = ErrNil
    /\ OffsetTimeOriginal \in DOMAIN last.entries
    /\ last.entries[OffsetTimeOriginal].DataType = DataType_UByte_Sequence
    /\ last.entries[OffsetTimeOriginal].Length = W(4)
    /\ DOMAIN last.entries[OffsetTimeOriginal].Value = {}

-----------------------------------------------------------------------------
(* Inline and external values                                              *)

IntegerTypes == {DataType_UShort, DataType_ULong, DataType_Short, DataType_Long}

\* the width in bytes of a unit of an integer datatype
UnitSize(dt) == IF dt \in {DataType_UShort, DataType_Short} THEN 2 ELSE 4

\* the unit of datatype dt the bytes b hold in byte order bo
UnitOf(bo, dt, b) ==
    CASE dt = DataType_UShort -> Uint16(bo, b)
      [] dt = DataType_Short  -> Int16Of(Uint16(bo, b))
      [] dt = DataType_ULong  -> Uint32(bo, b)
      [] dt = DataType_Long   -> ToInt32(Uint32(bo, b))

\* the n units of datatype dt stored in the source from offset at on
UnitsAt(bo, dt, at, n) ==
    [k \in 1..n |->
        UnitOf(bo, dt, SubSeq(src, at + UnitSize(dt) * (k - 1) + 1, at + UnitSize(dt) * k))]

\* the unit of datatype dt a 32-bit payload carries
UnitIn(dt, payload) ==
    CASE dt = DataType_UShort -> payload.lo
      [] dt = DataType_Short  -> Int16Of(payload.lo)
      [] dt = DataType_ULong  -> payload
      [] dt = DataType_Long   -> ToInt32(payload)

ScalarField(dt) ==
    CASE dt = DataType_UShort -> "Uint16" [] dt = DataType_Short -> "Int16"
      [] dt = DataType_ULong  -> "Uint32" [] dt = DataType_Long  -> "Int32"

SliceField(dt) ==
    CASE dt = DataType_UShort -> "Uints16" [] dt = DataType_Short -> "Ints16"
      [] dt = DataType_ULong  -> "Uints32" [] dt = DataType_Long  -> "Ints32"

SeekRecord(at) == [op |-> "seek", at |-> at, n |-> W(0), ok |-> TRUE]
ReadRecord(at, n) == [op |-> "read", at |-> at, n |-> n, ok |-> TRUE]

\* the log holds a seek to `at` followed at once by a read of n bytes there
\* (a read of no byte is no call of the reader)
SoughtAndRead(log, at, n) ==
    IF n = W(0) THEN \E i \in 1..Len(log) : log[i] = SeekRecord(at)
    ELSE \E i \in 1..(Len(log) - 1) :
            log[i] = SeekRecord(at) /\ log[i + 1] = ReadRecord(at, n)

\* the log holds a read of n bytes at `at`
ReadAt(log, at, n) == \E i \in 1..Len(log) : log[i].op = "read" /\ log[i].at = at /\ log[i].n = n

\* an entry of an integer datatype as Parse must have decoded it
IntegerDecoded(e) ==
    IF e.Length = W(1)
    THEN /\ e.Value = [f \in {ScalarField(e.DataType)} |-> UnitIn(e.DataType, e.RawValue)]
         /\ ~ReadAt(last.log, e.RawValue, W(UnitSize(e.DataType)))
    ELSE /\ e.Value = [f \in {SliceField(e.DataType)} |->
                          UnitsAt(parser.byteOrder, e.DataType, Small(e.RawValue), Small(e.Length))]
         /\ SoughtAndRead(last.log, e.RawValue, WMul(e.Length, UnitSize(e.DataType)))

\* the seeks and reads of an accessor that reads n bytes at `at`
AccessLog(at, n) ==
    IF n = W(0) THEN <<SeekRecord(at)>> ELSE <<SeekRecord(at), ReadRecord(at, n)>>

\* C15: an entry of a 16-bit or 32-bit integer datatype, unsigned or signed,
\* with count 1 carries the value its payload holds and the source is not
\* read for it; with any other count (0, and 2 units of 16 bits, included)
\* the payload is an offset: a seek there and one read of count * width bytes
\* are made, and the value is the `count` units stored there, in the
\* session's byte order and in file order.  ReadUints16 and ReadUints32
\* follow the same rule.
C15_InlineOrExternal ==
    /\ (last.op = "Parse" /\ last.err = ErrNil) =>
            \A e \in ScannedEntries : e.DataType \in IntegerTypes => IntegerDecoded(e)
    /\ (last.op \in {"ReadUints16", "ReadUints32"}
            /\ last.entry.DataType = AccessorType(last.op)) =>
            IF last.entry.Length = W(1)
            THEN /\ last.log = <<>>
                 /\ last.err = ErrNil
                 /\ last.value = <<UnitIn(last.entry.DataType, last.entry.RawValue)>>
            ELSE /\ last.log = AccessLog(last.entry.RawValue,
                                         WMul(last.entry.Length, UnitSize(last.entry.DataType)))
                 /\ last.err = ErrNil
                 /\ last.value = UnitsAt(parser.byteOrder, last.entry.DataType,
                                         Small(last.entry.RawValue), Small(last.entry.Length))

\* two 16-bit units, 4 bytes in all, are read from the offset in the payload
C15_Witness ==
    /\ last.op = "Parse"
    /\ last.err = ErrNil
    /\ DOMAIN last.entries = {ImageWidth, ImageHeight}
    /\ last.entries[ImageHeight].DataType = DataType_UShort
    /\ last.entries[ImageHeight].Length = W(2)
    /\ last.entries[ImageHeight].Value = [Uints16 |-> <<7, 40000>>]
    /\ ReadAt(last.log, last.entries[ImageHeight].RawValue, W(4))
    /\ last.entries[ImageWidth].Length = W(1)
    /\ DOMAIN last.entries[ImageWidth].Value = {"Uint16"}

\* the n bytes stored in the source from offset at on, without the last one
\* when it is a NUL
StringAt(at, n) ==
    IF n > 0 /\ src[at + n] = 0 THEN SubSeq(src, at + 1, at + n - 1)
    ELSE SubSeq(src, at + 1, at + n)

\* the number of NUL bytes at the end of a byte sequence
RECURSIVE TrailingNuls(_)
TrailingNuls(b) ==
    IF b = <<>> \/ b[Len(b)] # 0 THEN 0 ELSE 1 + TrailingNuls(SubSeq(b, 1, Len(b) - 1))

\* C16: the payload of a string entry is an offset whatever the count (4 or
\* less included): a seek there and one read of `count` bytes are made, and
\* the value is the bytes read without the last one if it is a NUL; one NUL
\* at most is removed, and NULs inside the string stay.  ReadString does the
\* same.
C16_StringExternal ==
    /\ (last.op = "Parse" /\ last.err = ErrNil) =>
            \A e \in ScannedEntries : e.DataType = DataType_String =>
                /\ SoughtAndRead(last.log, e.RawValue, e.Length)
                /\ e.Value = [String |-> StringAt(Small(e.RawValue), Small(e.Length))]
                /\ Small(e.Length) - Len(e.Value.String) \in {0, 1}
                /\ TrailingNuls(e.Value.String) =
                    (LET t == TrailingNuls(SubSeq(src, Small(e.RawValue) + 1,
                                                  Small(e.RawValue) + Small(e.Length)))
                     IN  IF t = 0 THEN 0 ELSE t - 1)
    /\ (last.op = "ReadString" /\ last.entry.DataType = DataType_String) =>
            /\ last.log = AccessLog(last.entry.RawValue, last.entry.Length)
            /\ last.err = ErrNil
            /\ last.value = StringAt(Small(last.entry.RawValue), Small(last.entry.Length))

\* strings of 3 and 4 bytes are read from their offsets; the first ends with
\* two NULs and keeps one, the second keeps the NUL it starts with
C16_Witness ==
    /\ last.op = "Parse"
    /\ last.err = ErrNil
    /\ DOMAIN last.entries = {Make, Model}
    /\ last.entries[Make].Length = W(3)
    /\ last.entries[Make].Value = [String |-> <<65, 0>>]
    /\ ReadAt(last.log, last.entries[Make].RawValue, W(3))
    /\ last.entries[Model].Length = W(4)
    /\ last.entries[Model].Value = [String |-> <<0, 66, 32>>]
    /\ ReadAt(last.log, last.entries[Model].RawValue, W(4))

\* the two 32-bit integers stored in the source from offset at on, as the
\* fields of a rational of datatype dt
RationalAt(bo, dt, at) ==
    [Numerator   |-> UnitOf(bo, IF dt = DataType_Rational THEN DataType_Long ELSE DataType_ULong,
                            SubSeq(src, at + 1, at + 4)),
     Denominator |-> UnitOf(bo, IF dt = DataType_Rational THEN DataType_Long ELSE DataType_ULong,
                            SubSeq(src, at + 5, at + 8))]

\* C17: the payload of a rational entry, unsigned or signed, is an offset
\* whatever the count: a seek there and one read of 8 bytes are made; the
\* first 4 bytes are the numerator and the next 4 the denominator, in the
\* session's byte order, as uint32 for the unsigned datatype and as int32
\* (two's complement) for the signed one.  ReadURational does the same.
C17_RationalExternal ==
    /\ (last.op = "Parse" /\ last.err = ErrNil) =>
            \A e \in ScannedEntries : e.DataType \in {DataType_URational, DataType_Rational} =>
                /\ SoughtAndRead(last.log, e.RawValue, W(8))
                /\ e.Value = [f \in {IF e.DataType = DataType_Rational
                                     THEN "Rational" ELSE "URational"} |->
                                RationalAt(parser.byteOrder, e.DataType, Small(e.RawValue))]
    /\ (last.op = "ReadURational" /\ last.entry.DataType = DataType_URational) =>
            /\ last.log = AccessLog(last.entry.RawValue, W(8))
            /\ last.err = ErrNil
            /\ last.value = RationalAt(parser.byteOrder, DataType_URational,
                                       Small(last.entry.RawValue))

\* an unsigned rational of count 2 and a signed one of count 0: 8 bytes are
\* read for each, 1/70000 and -1/3
C17_Witness ==
    /\ last.op = "Parse"
    /\ last.err = ErrNil
    /\ DOMAIN last.entries = {ExposureTime, FNumber}
    /\ last.entries[ExposureTime].Length = W(2)
    /\ last.entries[ExposureTime].Value =
            [URational |-> [Numerator |-> W(1), Denominator |-> [hi |-> 1, lo |-> 4464]]]
    /\ last.entries[FNumber].DataType = DataType_Rational
    /\ last.entries[FNumber].Length = W(0)
    /\ last.entries[FNumber].Value = [Rational |-> [Numerator |-> -1, Denominator |-> 3]]
    /\ ReadAt(last.log, last.entries[FNumber].RawValue, W(8))

\* a uint16 written back as a 32-bit payload: zero-extension
ZeroExtended(v) == [hi |-> 0, lo |-> v]

\* C18: for every unsigned 16-bit entry of count 1, the uint16 decoded from
\* the 32-bit payload (by Parse, or by ReadUint16), written back as a 32-bit
\* payload by zero-extension, is the payload the entry had.
C18_AsStated ==
    /\ (last.op = "Parse" /\ last.err = ErrNil) =>
            \A e \in ScannedEntries :
                (e.DataType = DataType_UShort /\ e.Length = W(1)) =>
                    ZeroExtended(e.Value.Uint16) = e.RawValue
    /\ (last.op = "ReadUint16" /\ last.err = ErrNil) =>
            ZeroExtended(last.value) = last.entry.RawValue

\* C18, for the payloads it holds for: the round trip recovers the low 16
\* bits of the payload, and the payload itself exactly when its high 16 bits
\* are zero
C18_LowBitsRecovered ==
    /\ (last.op = "Parse" /\ last.err = ErrNil) =>
            \A e \in ScannedEntries :
                (e.DataType = DataType_UShort /\ e.Length = W(1)) =>
                    /\ ZeroExtended(e.Value.Uint16).lo = e.RawValue.lo
                    /\ ZeroExtended(e.Value.Uint16) = e.RawValue <=> e.RawValue.hi = 0
    /\ (last.op = "ReadUint16" /\ last.err = ErrNil) =>
            /\ ZeroExtended(last.value).lo = last.entry.RawValue.lo
            /\ ZeroExtended(last.value) = last.entry.RawValue <=> last.entry.RawValue.hi = 0

\* the width 5184 stored in the first two bytes of a big-endian payload
\* (14 40 00 00) is decoded as 0
C18_Witness ==
    /\ last.op = "Parse"
    /\ last.err = ErrNil
    /\ parser.byteOrder = BigEndian
    /\ ImageWidth \in DOMAIN last.entries
    /\ last.entries[ImageWidth].DataType = DataType_UShort
    /\ last.entries[ImageWidth].Length = W(1)
    /\ last.entries[ImageWidth].RawValue = [hi |-> 5184, lo |-> 0]
    /\ last.entries[ImageWidth].Value = [Uint16 |-> 0]

-----------------------------------------------------------------------------
(* Thumbnails: ReadThumbnail on images whose second directory holds both   *)
(* thumbnail tags, one of them, neither, or one of another datatype, with  *)
(* and without a failing seek or read                                      *)

ThumbImages ==
    UNION {{Image("cr2", bo, 8), Image("signed", bo, 0), Image("nooffset", bo, 0),
            Image("nolength", bo, 0), Image("notags", bo, 0)} : bo \in ByteOrders}

InitThumb == InitOn(ThumbImages)

FaultyThumbnail == \E failAt \in 0..MaxFail : ReadThumbnailCall(failAt) /\ UNCHANGED snap

NextThumb == NewParser \/ FaultyThumbnail

SpecThumb == InitThumb /\ [][NextThumb]_vars

\* the identifiers of the image's second directory
Ifd1Tags == {BodyOf(file).ifd1[i].id : i \in 1..Len(BodyOf(file).ifd1)}

\* ReadThumbnail has run, no seek or read of it was made to fail, and the
\* image has a second directory
ThumbnailRun ==
    /\ last.op = "ReadThumbnail"
    /\ last.failAt = 0
    /\ BodyOf(file).ifd1 # <<>>

\* the two errors ReadThumbnail makes itself
ThumbnailErrors == {ErrThumbnailOffset, ErrThumbnailLength}

\* the log holds a read of thumbnail bytes: one that is not the read of a
\* directory's count, of a record or of the next-directory pointer
BulkRead ==
    \E i \in 1..Len(last.log) :
        /\ last.log[i].op = "read"
        /\ ~SoughtAndRead(SubSeq(last.log, 1, 4), last.log[i].at, last.log[i].n)
        /\ last.log[i].n \notin {W(2), W(EntryLength)}

\* C19: when the second directory lacks the thumbnail-offset tag (0x0201) or
\* the thumbnail-length tag (0x0202), ReadThumbnail fails with one of its
\* not-found errors, returns no bytes and makes no read of thumbnail bytes.
C19_AsStated ==
    (ThumbnailRun /\ {ThumbnailOffset, ThumbnailLength} \ Ifd1Tags # {}) =>
        /\ last.err \in ThumbnailErrors
        /\ last.buffer = <<>>
        /\ ~BulkRead

\* C19, as the code has it: the not-found errors are returned when a tag is
\* present with a value that is not a single unsigned 32-bit integer; for an
\* absent tag the offset or length is 0, no error is returned, and the bytes
\* [offset, offset + length) of the source are
C19_AbsentTagIsZero ==
    (ThumbnailRun /\ {ThumbnailOffset, ThumbnailLength} \ Ifd1Tags # {}) =>
        /\ file.name = "signed" <=> last.err \in ThumbnailErrors
        /\ file.name = "nooffset" => last.err = ErrNil /\ last.buffer = SubSeq(src, 1, 4)
        /\ file.name \in {"nolength", "notags"} => last.err = ErrNil /\ last.buffer = <<>>

\* the second directory holds a length of 4 and no offset: the first 4
\* bytes of the file, its header, are returned as the thumbnail
C19_Witness ==
    /\ last.op = "ReadThumbnail"
    /\ last.failAt = 0
    /\ file.name = "nooffset"
    /\ last.err = ErrNil
    /\ last.buffer = SubSeq(src, 1, 4)
    /\ last.log[Len(last.log)] = ReadRecord(W(0), W(4))

\* the second directory holds both thumbnail tags as single unsigned 32-bit
\* integers
BothThumbnailTags ==
    /\ {ThumbnailOffset, ThumbnailLength} \subseteq Ifd1Tags
    /\ \A i \in 1..Len(BodyOf(file).ifd1) :
            BodyOf(file).ifd1[i].id \in {ThumbnailOffset, ThumbnailLength} =>
                BodyOf(file).ifd1[i].dt = DataType_ULong /\ BodyOf(file).ifd1[i].cnt = 1

\* the log of a ReadThumbnail that finds the next-directory pointer at ptrAt,
\* the second directory at ifd1 and the thumbnail's len bytes at off
ThumbnailLogged(log, first, ptrAt, ifd1, off, len) ==
    /\ Len(log) >= 8
    /\ SubSeq(log, 1, 6) = <<SeekRecord(first), ReadRecord(first, W(2)),
                             SeekRecord(ptrAt), ReadRecord(ptrAt, W(4)),
                             SeekRecord(ifd1), ReadRecord(ifd1, W(2))>>
    /\ \A i \in 7..(Len(log) - 2) :
            log[i].n \in {W(0), W(EntryLength)} /\ WLess(ifd1, log[i].at)
    /\ SubSeq(log, Len(log) - 1, Len(log)) = <<SeekRecord(off), ReadRecord(off, len)>>

\* C20: ReadThumbnail reads the root directory's count at the first
\* directory's offset, the 4-byte next-directory pointer at that offset
\* + 2 + 12 * count, and the second directory at the pointer's value; it then
\* makes one seek to the thumbnail offset found there and one read of the
\* thumbnail length found there, and returns those bytes of the source,
\* [offset, offset + length).
C20_ThumbnailRead ==
    (ThumbnailRun /\ BothThumbnailTags) =>
        LET first == parser.firstIFDOffset
            count == Uint16(parser.byteOrder, SubSeq(src, Small(first) + 1, Small(first) + 2))
            ptrAt == Small(first) + 2 + 12 * count
            ifd1  == Uint32(parser.byteOrder, SubSeq(src, ptrAt + 1, ptrAt + 4))
            off   == ThumbOffset(file)
            len   == Len(BodyOf(file).thumb)
        IN  /\ last.err = ErrNil
            /\ count = Len(BodyOf(file).root)
            /\ ifd1 = W(Ifd1Offset(file))
            /\ ThumbnailLogged(last.log, first, W(ptrAt), ifd1, W(off), W(len))
            /\ last.buffer = SubSeq(src, off + 1, off + len)
            /\ Len(last.buffer) = len

\* the 4 thumbnail bytes of the CR2-like image are returned
C20_Witness ==
    /\ last.op = "ReadThumbnail"
    /\ last.failAt = 0
    /\ file.name = "cr2"
    /\ last.err = ErrNil
    /\ last.buffer = <<255, 216, 255, 217>>
    /\ Len(last.log) = 12

-----------------------------------------------------------------------------
(* Empty wanted-sets                                                       *)

\* the image is laid out as described: its marker is its byte order's and
\* its first directory is the root directory
LaidOut(f) == f.marker = MarkerOf(f.bo) /\ f.first.at = "root" /\ f.cut = 0

\* the offset of the directory of a sub-directory group in a laid-out image
SubDirectoryOffset(f, g) == IF g = Group_Exif THEN ExifOffset(f) ELSE GpsOffset(f)

\* the log holds a seek or a read at offset at
Touched(log, at) == \E i \in 1..Len(log) : log[i].at = W(at)

\* C21: with an empty wanted-set (no requested identifier is mapped) the
\* root scan reads the count and at most the first entry, and Parse returns
\* an empty map after that scan alone; and whenever no requested identifier
\* is mapped to Exif (GPSInfo), Parse makes no seek and no read at the Exif
\* (GPSInfo) directory.
C21_EmptyWanted ==
    last.op = "Parse" =>
        /\ (\A g \in ParseGroups : WantedOf(last.mapping, last.ids, g) = {}) =>
                /\ Len(last.scans) = 1
                /\ last.scans[1].wanted = {}
                /\ Len(last.scans[1].scanned) <= 1
                /\ Cardinality(EntryReads) <= 1
                /\ Len(last.log) <= 4
                /\ last.entries = <<>>
                /\ NoIOFailure => last.err = ErrNil
        /\ \A g \in {Group_Exif, Group_GPSInfo} :
                (WantedOf(last.mapping, last.ids, g) = {} /\ LaidOut(file)
                        /\ file.name \in {"cr2", "orf", "signed"}) =>
                    ~Touched(last.log, SubDirectoryOffset(file, g))

\* Parse() with no identifier on the CR2-like image: the count and the first
\* record are read, nothing else
C21_Witness ==
    /\ last.op = "Parse"
    /\ last.ids = <<>>
    /\ file.name = "cr2"
    /\ last.err = ErrNil
    /\ last.entries = <<>>
    /\ last.scans[1].scanned = <<ImageWidth>>
    /\ Len(last.log) = 4

-----------------------------------------------------------------------------
(* Two Parse calls at once.  A call is a goroutine inside Parse: its       *)
(* position pc is the Seek or ReadFull it is about to make (of collect's   *)
(* entry count, of a directory record, of a value kept outside its         *)
(* record), with the locals of Parse and of collect.  A step is that one   *)
(* call on the cursor and everything the goroutine computes up to its next *)
(* Seek or ReadFull.                                                       *)

\* a call about to scan the directory of group g at offset: c.scans are the
\* groups whose scan the call has begun
Enter(c, g, offset) ==
    [c EXCEPT !.pc = "seekCount", !.group = g, !.offset = offset, !.scans = Append(@, g)]

\* Parse(ids...) up to the first Seek of its root scan
Call(p, mapping, ids, shared) ==
    Enter([pc |-> "done", ids |-> ids, shared |-> shared, handle |-> W(0),
           w |-> Partition(mapping, ids,
                           [ifd0 |-> newWanted, exif |-> newWanted, gpsInfo |-> newWanted]),
           group |-> Group_IFD0, offset |-> W(0), i |-> 0, numEntries |-> 0,
           found |-> <<>>, e |-> <<>>, ifd0Entries |-> <<>>, entries |-> <<>>,
           err |-> ErrNil, sought |-> W(0), displaced |-> FALSE, scans |-> <<>>],
          Group_IFD0, p.firstIFDOffset)

\* the wanted-set of the scan the call is in
WantedIn(c) ==
    IF c.group = Group_IFD0 THEN c.w.ifd0
    ELSE IF c.group = Group_Exif THEN c.w.exif ELSE c.w.gpsInfo

\* return from Parse
Done(c, entries, err) == [c EXCEPT !.pc = "done", !.entries = entries, !.err = err]

\* Parse from its GPSInfo step on
NextGPSInfo(c) ==
    IF Empty(c.w.gpsInfo) THEN Done(c, c.entries, ErrNil)
    ELSE IF GPSInfo \notin DOMAIN c.ifd0Entries THEN Done(c, <<>>, ErrIFDNotFound)
    ELSE Enter(c, Group_GPSInfo, PointerOf([entries |-> c.ifd0Entries], GPSInfo))

\* Parse from its Exif step on
NextExif(c) ==
    IF Empty(c.w.exif) THEN NextGPSInfo(c)
    ELSE IF Exif \notin DOMAIN c.ifd0Entries THEN Done(c, <<>>, ErrIFDNotFound)
    ELSE Enter(c, Group_Exif, PointerOf([entries |-> c.ifd0Entries], Exif))

\* collect returns c.found without error: Parse goes on after the scan
Return(c) ==
    IF c.group = Group_IFD0
    THEN NextExif([c EXCEPT !.ifd0Entries = c.found, !.entries = EmitRoot(c.found)])
    ELSE IF c.group = Group_Exif
    THEN NextGPSInfo([c EXCEPT !.entries = Merge(@, c.found)])
    ELSE Done(c, Merge(c.entries, c.found), ErrNil)

\* a faulty LoopHead: the loop goes on whatever i is
LoopAgain(c) == [c EXCEPT !.pc = "seekEntry"]

\* for i := 0; i < numEntries; i++
LoopHead(c) == IF c.i < c.numEntries THEN [c EXCEPT !.pc = "seekEntry"] ELSE Return(c)

\* if id >= wanted.Max() { break }
Break(c, id) ==
    IF id >= Max(WantedIn(c)) THEN Return(c) ELSE LoopHead([c EXCEPT !.i = @ + 1])

\* entries[id] = Entry{...}
Store(c, e, value) ==
    Break([c EXCEPT !.found = MapPut(@, e.ID, [e EXCEPT !.Value = value])], e.ID)

\* readValue makes a Seek and a ReadFull for this datatype and count
External(dt, length) ==
    \/ dt \in {DataType_String, DataType_URational, DataType_Rational}
    \/ dt \in {DataType_UShort, DataType_ULong, DataType_Short, DataType_Long} /\ length # W(1)

\* len(buffer) of that ReadFull
SizeOf(dt, length) ==
    IF dt = DataType_String THEN length
    ELSE IF dt \in {DataType_UShort, DataType_Short} THEN WMul(length, 2)
    ELSE IF dt \in {DataType_ULong, DataType_Long} THEN WMul(length, 4)
    ELSE W(8)

\* readValue once the buffer r of an external value is read
ValueRead(p, dt, r) ==
    CASE dt = DataType_String -> Resolved("String", stringOf(r))
      [] dt = DataType_UShort -> Resolved("Uints16", uintsOf(p, 2, r))
      [] dt = DataType_ULong -> Resolved("Uints32", uintsOf(p, 4, r))
      [] dt = DataType_URational -> Resolved("URational", urationalOf(p, r))
      [] dt = DataType_Short -> Resolved("Ints16", ints16Of(uintsOf(p, 2, r)))
      [] dt = DataType_Long -> Resolved("Ints32", ints32Of(uintsOf(p, 4, r)))
      [] OTHER -> Resolved("Rational", rationalOf(p, r))

\* what a step gives: the call after it and the cursor after it
Stepped(c, cursor) == [c |-> c, cursor |-> cursor]

\* a faulty Sought: the Seek leaves the cursor where it was
SoughtNowhere(c, pc, cursor, at) == Stepped([c EXCEPT !.pc = pc, !.sought = at], cursor)

\* p.reader.Seek(at, io.SeekStart), the call going on to pc
Sought(c, pc, cursor, at) ==
    Stepped([c EXCEPT !.pc = pc, !.sought = at], Seek(NewReader(cursor, 0), at).rd.pos)

\* the call has its ReadFull made at cursor: displaced when the cursor is not
\* where the call's own Seek has put it
ReadAtCursor(c, cursor) == [c EXCEPT !.displaced = @ \/ cursor # c.sought]

\* collect once the 2 bytes r of the entry count are read
CountRead(c, p, r) ==
    IF r.err # ErrNil THEN Stepped(Done(c, <<>>, r.err), r.rd.pos)
    ELSE Stepped(LoopHead([c EXCEPT !.numEntries = Uint16(p.byteOrder, r.buf),
                                    !.offset = WAdd(@, 2), !.i = 0, !.found = <<>>]),
                 r.rd.pos)

\* the record c.e is decoded: it is stored with an inline value, or its
\* value is to be read, or it is not wanted
EntryDecoded(c, bytes, p, rd, e) ==
    IF ~Contains(WantedIn(c), e.ID) THEN Break(c, e.ID)
    ELSE IF External(e.DataType, e.Length) THEN [c EXCEPT !.pc = "seekValue", !.e = e]
    ELSE Store(c, e, readValue(bytes, p, rd, e.DataType, e.Length, e.RawValue).value)

\* one iteration of collect once the 12 bytes r of the record are read
EntryRead(c, bytes, p, r) ==
    IF r.err # ErrNil THEN Stepped(Done(c, <<>>, r.err), r.rd.pos)
    ELSE Stepped(EntryDecoded([c EXCEPT !.offset = WAdd(@, EntryLength)], bytes, p, r.rd,
                     [ID       |-> Uint16(p.byteOrder, SubSeq(r.buf, 1, 2)),
                      DataType |-> Uint16(p.byteOrder, SubSeq(r.buf, 3, 4)),
                      Length   |-> Uint32(p.byteOrder, SubSeq(r.buf, 5, 8)),
                      RawValue |-> Uint32(p.byteOrder, SubSeq(r.buf, 9, 12)),
                      Value    |-> EntryValueZero]),
                 r.rd.pos)

\* readValue and the rest of the iteration once the value v is resolved
ValueResolved(c, v) ==
    IF v.err # ErrNil THEN Stepped(Done(c, <<>>, v.err), v.rd.pos)
    ELSE Stepped(Store(c, c.e, v.value), v.rd.pos)

\* the next Seek or ReadFull of call c, made at cursor
Step(c, bytes, p, cursor) ==
    CASE c.pc = "seekCount" -> Sought(c, "readCount", cursor, c.offset)
      [] c.pc = "readCount" ->
            CountRead(ReadAtCursor(c, cursor), p, ReadFull(bytes, NewReader(cursor, 0), W(2)))
      [] c.pc = "seekEntry" -> Sought(c, "readEntry", cursor, c.offset)
      [] c.pc = "readEntry" ->
            EntryRead(ReadAtCursor(c, cursor), bytes, p,
                      ReadFull(bytes, NewReader(cursor, 0), W(EntryLength)))
      [] c.pc = "seekValue" -> Sought(c, "readValue", cursor, c.e.RawValue)
      [] c.pc = "readValue" ->
            ValueResolved(ReadAtCursor(c, cursor),
                          ValueRead(p, c.e.DataType,
                                    ReadFull(bytes, NewReader(cursor, 0),
                                             SizeOf(c.e.DataType, c.e.Length))))

\* the images and requests of the two calls
RaceImages == {Image("orf", bo, 0) : bo \in ByteOrders}
RaceRequests == {<<ImageWidth>>, <<Make>>, <<ExposureTime>>}

InitRace == InitOn(RaceImages)

\* two sessions on the source start one Parse each, in two goroutines: on the
\* one handle the sessions were made from (shared), or each on a handle of
\* its own, opened on the same bytes
Go ==
    /\ parser.ok /\ calls = <<>>
    /\ \E a \in RaceRequests, b \in RaceRequests, shared \in BOOLEAN :
        calls' = << [Call(parser, Defaults, a, shared) EXCEPT !.handle = pos],
                    [Call(parser, Defaults, b, shared) EXCEPT !.handle = pos] >>
    /\ last' = [NoResult EXCEPT !.op = "go"]
    /\ UNCHANGED <<file, src, pos, parser, Defaults, snap, puts>>

\* call k has made the step s
Ran(k, s) ==
    /\ calls' = [calls EXCEPT ![k] = IF @.shared THEN s.c ELSE [s.c EXCEPT !.handle = s.cursor]]
    /\ pos' = IF calls[k].shared THEN s.cursor ELSE pos

\* the goroutine of call k is scheduled for one step
Run(k) ==
    /\ k \in DOMAIN calls
    /\ calls[k].pc # "done"
    /\ Ran(k, Step(calls[k], src, parser,
                   IF calls[k].shared THEN pos ELSE calls[k].handle))
    /\ UNCHANGED <<file, src, parser, Defaults, last, snap, puts>>

NextRace == NewParser \/ Go \/ \E k \in 1..2 : Run(k)

SpecRace == InitRace /\ [][NextRace]_vars

\* what the Parse of call c returns when no other call runs
Alone(c) == Parse(src, parser, Defaults, NewReader(W(0), 0), c.ids)

SameAsAlone(c, r) == c.entries = r.entries /\ c.err = r.err

\* C22: two Parse calls of two sessions on one source, each Seek and each
\* ReadFull a step of its own.  With a handle per session every interleaving
\* gives each call the result it gives when run alone; on the shared handle a
\* call gives that result whenever none of its reads was made at a cursor
\* another call's step has moved (a result that differs comes from a step
\* of the other call between a Seek and its ReadFull).
C22_IndependentHandles ==
    \A k \in DOMAIN calls :
        (calls[k].pc = "done" /\ (~calls[k].shared \/ ~calls[k].displaced)) =>
            SameAsAlone(calls[k], Alone(calls[k]))

\* on the shared handle, the call for Make has a read made where the other
\* call's Seek has put the cursor, and returns something else than alone
C22_Witness ==
    /\ calls # <<>>
    /\ calls[1].shared /\ calls[1].pc = "done" /\ calls[2].pc = "done"
    /\ calls[1].ids = <<Make>> /\ calls[1].displaced
    /\ ~SameAsAlone(calls[1], Alone(calls[1]))

-----------------------------------------------------------------------------
(* The early exit of collect against a scan of the whole directory         *)

RECURSIVE fullScanLoop(_, _, _, _, _, _, _, _, _)

\* one record of the full scan, once e is decoded and v is its value (or
\* the error of reading it): it is kept when wanted
fullScanValue(bytes, p, ids, i, numEntries, offset, entries, scanned, e, v) ==
    IF v.err # ErrNil THEN Collected(<<>>, v.err, v.rd, scanned)
    ELSE fullScanLoop(bytes, p, v.rd, ids, i + 1, numEntries, WAdd(offset, EntryLength),
                      IF e.ID \in ids
                      THEN MapPut(entries, e.ID, [e EXCEPT !.Value = v.value])
                      ELSE entries,
                      scanned)

\* one record of the full scan, once its 12 bytes r are read
fullScanEntry(bytes, p, ids, i, numEntries, offset, entries, scanned, r, e) ==
    fullScanValue(bytes, p, ids, i, numEntries, offset, entries, Append(scanned, e.ID), e,
                  IF e.ID \in ids
                  THEN readValue(bytes, p, r.rd, e.DataType, e.Length, e.RawValue)
                  ELSE [value |-> EntryValueZero, err |-> ErrNil, rd |-> r.rd])

fullScanRead(bytes, p, ids, i, numEntries, offset, entries, scanned, r) ==
    IF r.err # ErrNil THEN Collected(<<>>, r.err, r.rd, scanned)
    ELSE fullScanEntry(bytes, p, ids, i, numEntries, offset, entries, scanned, r,
                       [ID       |-> Uint16(p.byteOrder, SubSeq(r.buf, 1, 2)),
                        DataType |-> Uint16(p.byteOrder, SubSeq(r.buf, 3, 4)),
                        Length   |-> Uint32(p.byteOrder, SubSeq(r.buf, 5, 8)),
                        RawValue |-> Uint32(p.byteOrder, SubSeq(r.buf, 9, 12)),
                        Value    |-> EntryValueZero])

\* every one of the numEntries records, in stored order, none skipped
fullScanLoop(bytes, p, rd, ids, i, numEntries, offset, entries, scanned) ==
    IF ~(i < numEntries) THEN Collected(entries, ErrNil, rd, scanned)
    ELSE fullScanRead(bytes, p, ids, i, numEntries, offset, entries, scanned,
                      SeekRead(bytes, rd, offset, W(EntryLength)))

fullScanFrom(bytes, p, ids, startingOffset, r) ==
    IF r.err # ErrNil THEN Collected(<<>>, r.err, r.rd, <<>>)
    ELSE fullScanLoop(bytes, p, r.rd, ids, 0, Uint16(p.byteOrder, r.buf),
                      WAdd(startingOffset, 2), <<>>, <<>>)

\* the scan of all `count` records of the directory at startingOffset that
\* keeps the records whose identifier is in ids
FullScan(bytes, p, startingOffset, ids) ==
    fullScanFrom(bytes, p, ids, startingOffset,
                 SeekRead(bytes, NewReader(W(0), 0), startingOffset, W(2)))

StrictlyAscending(seq) == \A i \in 1..(Len(seq) - 1) : seq[i] < seq[i + 1]

\* the scan s of collect returned the map of the full scan full
SameAsFullScan(s, full) ==
    (full.err = ErrNil /\ StrictlyAscending(full.scanned)) =>
        s.err = ErrNil /\ s.entries = full.entries

\* C23: for every directory scan of Parse made with a non-empty wanted-set on a
\* directory whose `count` records are readable and in strictly ascending
\* identifier order, collect returns exactly the map of a scan of all the
\* records that keeps those whose identifier is in the wanted-set.
C23_EarlyExitIsFullScan ==
    last.op = "Parse" =>
        \A k \in 1..Len(last.scans) :
            last.scans[k].wanted # {} =>
                SameAsFullScan(last.scans[k],
                               FullScan(src, parser, last.scans[k].offset, last.scans[k].wanted))

\* Make is asked of the CR2-like image: collect leaves its loop after the
\* third of the five records of the root directory, with the map of the full
\* scan
C23_Witness ==
    /\ last.op = "Parse" /\ file.name = "cr2" /\ last.ids = <<Make>>
    /\ last.scans[1].scanned = <<ImageWidth, BitsPerSample, Make>>
    /\ StrictlyAscending(FullScan(src, parser, last.scans[1].offset, {Make}).scanned)
    /\ Len(FullScan(src, parser, last.scans[1].offset, {Make}).scanned) = 5
    /\ last.scans[1].entries = FullScan(src, parser, last.scans[1].offset, {Make}).entries
    /\ DOMAIN last.scans[1].entries = {Make}

-----------------------------------------------------------------------------
(* The routing of the requested identifiers to the three wanted-sets       *)

RouteImages == {Image("tiny", LittleEndian, 0)}

\* tables for WithMapping, among them tables that send a pointer tag to a
\* sub-directory and an identifier to a group Parse does not scan
RouteOverrides ==
    Overrides \cup {[id \in {Exif} |-> g] : g \in {Group_Exif, Group_GPSInfo}}
              \cup {[id \in {GPSInfo} |-> Group_GPSInfo], [id \in {ImageWidth} |-> Group_IFD1]}

RouteIDs == {ImageWidth, Exif, GPSInfo, ExposureTime, GPSLatitude, MakerNotes}

RouteRequests == {SortedSeq(S) : S \in SUBSET RouteIDs}

InitRoute == InitOn(RouteImages)

RouteMapping == calls = <<>> /\ \E m \in RouteOverrides : WithMapping(m)

\* Parse(ids...) as far as its wanted-sets
Route ==
    /\ parser.ok /\ calls = <<>>
    /\ \E ids \in RouteRequests :
        /\ calls' = <<Call(parser, Defaults, ids, TRUE)>>
        /\ last' = [NoResult EXCEPT !.op = "Route", !.ids = ids, !.mapping = Defaults]
    /\ UNCHANGED <<file, src, pos, parser, Defaults, snap, puts>>

NextRoute == NewParser \/ RouteMapping \/ Route

SpecRoute == InitRoute /\ [][NextRoute]_vars

\* the identifiers the wanted-set is for
IdsOf(we) == {id \in 0..(Pow2_16 - 1) : Contains(we, id)}

\* the identifiers of the three wanted-sets
Sets(w) == [ifd0 |-> IdsOf(w.ifd0), exif |-> IdsOf(w.exif), gpsInfo |-> IdsOf(w.gpsInfo)]

PairwiseDisjoint(S) ==
    /\ S.ifd0 \cap S.exif = {}
    /\ S.ifd0 \cap S.gpsInfo = {}
    /\ S.exif \cap S.gpsInfo = {}

\* the pointer tags of the sub-directories something is wanted from
PointerTagsOf(w) ==
    {PointerTag(g) : g \in {h \in {Group_Exif, Group_GPSInfo} :
                                ~Empty(IF h = Group_Exif THEN w.exif ELSE w.gpsInfo)}}

\* what C24 says of the three sets S of w apart from their being disjoint
Routed(S, w, mapping, ids) ==
    /\ S.exif = WantedOf(mapping, ids, Group_Exif)
    /\ S.gpsInfo = WantedOf(mapping, ids, Group_GPSInfo)
    /\ S.ifd0 = WantedOf(mapping, ids, Group_IFD0) \cup PointerTagsOf(w)
    /\ \A t \in PointerTagsOf(w) : Contains(w.ifd0, t) /\ Max(w.ifd0) >= t

StatedOf(S, w, mapping, ids) == PairwiseDisjoint(S) /\ Routed(S, w, mapping, ids)

\* C24 as the specification states it: the three wanted-sets are disjoint,
\* whatever the mapping.
C24_AsStated ==
    last.op = "Route" => StatedOf(Sets(calls[1].w), calls[1].w, last.mapping, last.ids)

RoutingOf(S, w, mapping, ids) ==
    /\ Routed(S, w, mapping, ids)
    /\ S.exif \cap S.gpsInfo = {}
    /\ (S.exif \cup S.gpsInfo) \cap S.ifd0 \subseteq {Exif, GPSInfo}
    /\ (\A t \in {Exif, GPSInfo} : mapping[t] \notin {Group_Exif, Group_GPSInfo}) =>
            PairwiseDisjoint(S)

\* C24: Parse routes each requested identifier that has a mapping entry to the
\* wanted-set of its group alone (root, Exif or GPSInfo), and puts the pointer
\* tag of a sub-directory into the root set whenever something is routed to
\* that sub-directory; the Exif and GPSInfo sets are disjoint, the root set
\* shares with them nothing but a pointer tag, and the three are disjoint
\* when the mapping sends no pointer tag to a sub-directory; whenever a
\* sub-directory's set is non-empty the root set contains its pointer tag and
\* the root set's maximum is at least that tag.
C24_Routing ==
    last.op = "Route" => RoutingOf(Sets(calls[1].w), calls[1].w, last.mapping, last.ids)

\* one identifier for each directory, under the default table
C24_Witness ==
    /\ last.op = "Route" /\ last.mapping = DefaultsTable
    /\ last.ids = <<GPSLatitude, ImageWidth, ExposureTime>>
    /\ Sets(calls[1].w) = [ifd0 |-> {ImageWidth, Exif, GPSInfo}, exif |-> {ExposureTime},
                           gpsInfo |-> {GPSLatitude}]
    /\ Max(calls[1].w.ifd0) = GPSInfo

-----------------------------------------------------------------------------
(* The wanted-set on its own: sequences of Put                             *)

MaxPuts == 4

\* identifiers to Put: the least and the greatest EntryID, neighbours, a tag
PutIDs == {0, 1, ImageWidth, ImageHeight, Pow2_16 - 1}

\* we.Put(id) on the set built so far
PutCall ==
    /\ Len(puts.ids) < MaxPuts
    /\ \E id \in PutIDs : puts' = [we |-> Put(puts.we, id), ids |-> Append(puts.ids, id)]
    /\ UNCHANGED <<file, src, pos, parser, Defaults, last, snap, calls>>

\* newWanted(ids...) for a fresh set
NewWantedCall ==
    /\ puts.ids = <<>>
    /\ \E a \in PutIDs, b \in PutIDs :
        puts' = [we |-> newWantedOf(<<a, b>>, newWanted), ids |-> <<a, b>>]
    /\ UNCHANGED <<file, src, pos, parser, Defaults, last, snap, calls>>

NextWanted == PutCall \/ NewWantedCall

InitWanted == InitOn(RouteImages)

SpecWanted == InitWanted /\ [][NextWanted]_vars

\* what C25 says of the set we after the Puts of ids; S is IdsOf(we)
WantedInvariant(we, S, ids) ==
    /\ S = Ids(ids)
    /\ Empty(we) <=> ids = <<>>
    /\ Max(we) = MaxOf(Ids(ids))
    /\ ids = <<>> => Max(we) = 0
    /\ ~Empty(we) => Contains(we, Max(we))

\* C25: after any sequence of Put on a new wanted-set, Contains(id) is true
\* exactly for the identifiers Put, Empty() is true exactly when nothing was
\* Put, Max() is the largest identifier Put, 0 for the empty set, and a
\* member of the set when the set is not empty.
C25_WantedInvariant == WantedInvariant(puts.we, IdsOf(puts.we), puts.ids)

\* a larger identifier Put before a smaller one, and one Put twice
C25_Witness ==
    /\ puts.ids = <<ImageWidth, Pow2_16 - 1, 1, ImageWidth>>
    /\ IdsOf(puts.we) = {1, ImageWidth, Pow2_16 - 1}
    /\ Max(puts.we) = Pow2_16 - 1 /\ ~Empty(puts.we)

-----------------------------------------------------------------------------
(* PrintEntries: the walk over the directories of the file.  A step is one *)
(* invocation of printEntries, which handles the directory at the head of  *)
(* the worklist and calls itself with the worklist it has built.           *)

\* what one invocation leaves: the worklist, the error, the reader
Printed(offsets, err, rd) == [offsets |-> offsets, err |-> err, rd |-> rd]

\* the end of an invocation, once the 4 bytes r after the records are read:
\*   next := p.byteOrder.Uint32(buffer); if next > 0 { offsets = append(offsets, next) }
printNext(p, offsets, r) ==
    IF r.err # ErrNil THEN Printed(offsets, r.err, r.rd)
    ELSE IF WLess(W(0), Uint32(p.byteOrder, r.buf))
    THEN Printed(Append(offsets, Uint32(p.byteOrder, r.buf)), ErrNil, r.rd)
    ELSE Printed(offsets, ErrNil, r.rd)

RECURSIVE printLoop(_, _, _, _, _, _, _)

\* one record, once its value v is read (or has failed): the payload of an
\* Exif or GPSInfo record is appended to the worklist
printValue(bytes, p, i, numEntries, offset, offsets, id, rawValue, v) ==
    IF v.err # ErrNil THEN Printed(offsets, v.err, v.rd)
    ELSE printLoop(bytes, p, v.rd, i + 1, numEntries, WAdd(offset, EntryLength),
                   IF id = Exif \/ id = GPSInfo THEN Append(offsets, rawValue) ELSE offsets)

\* one record, once its 12 bytes r are read
printEntry(bytes, p, i, numEntries, offset, offsets, r) ==
    IF r.err # ErrNil THEN Printed(offsets, r.err, r.rd)
    ELSE printValue(bytes, p, i, numEntries, offset, offsets,
                    Uint16(p.byteOrder, SubSeq(r.buf, 1, 2)),
                    Uint32(p.byteOrder, SubSeq(r.buf, 9, 12)),
                    readValue(bytes, p, r.rd,
                              Uint16(p.byteOrder, SubSeq(r.buf, 3, 4)),
                              Uint32(p.byteOrder, SubSeq(r.buf, 5, 8)),
                              Uint32(p.byteOrder, SubSeq(r.buf, 9, 12))))

\* for i := uint16(0); i < numEntries; i++ { ... }, then the next pointer
printLoop(bytes, p, rd, i, numEntries, offset, offsets) ==
    IF i < numEntries
    THEN printEntry(bytes, p, i, numEntries, offset, offsets,
                    SeekRead(bytes, rd, offset, W(EntryLength)))
    ELSE printNext(p, offsets, SeekRead(bytes, rd, offset, W(4)))

\* an invocation once the 2 bytes r of the entry count are read
printFrom(bytes, p, offset, offsets, r) ==
    IF r.err # ErrNil THEN Printed(offsets, r.err, r.rd)
    ELSE printLoop(bytes, p, r.rd, 0, Uint16(p.byteOrder, r.buf), WAdd(offset, 2), offsets)

\* one invocation of printEntries(p, offsets) with a worklist that is not
\* empty, up to its call of itself
printEntries(bytes, p, rd, offsets) ==
    printFrom(bytes, p, Head(offsets), Tail(offsets),
              SeekRead(bytes, rd, Head(offsets), W(2)))

\* the invocations of printEntries a run of the model follows
MaxVisits == 6

PrintImages ==
    {f \in Images : f.name \in {"cr2", "orf", "signed", "sparse", "looping", "truncated",
                                "dangling", "offset"}}

InitPrint == InitOn(PrintImages)

\* p.PrintEntries(): printEntries(p, []int64{p.firstIFDOffset})
PrintEntries ==
    /\ parser.ok /\ calls = <<>>
    /\ calls' = <<[pc |-> "printEntries", offsets |-> <<parser.firstIFDOffset>>,
                   visited |-> <<>>, err |-> ErrNil]>>
    /\ last' = [NoResult EXCEPT !.op = "PrintEntries"]
    /\ UNCHANGED <<file, src, pos, parser, Defaults, snap, puts>>

\* the invocation has returned r
PrintedDirectory(c, r) ==
    /\ calls' = <<[pc      |-> IF r.err # ErrNil THEN "done" ELSE "printEntries",
                   offsets |-> r.offsets,
                   visited |-> Append(c.visited, Head(c.offsets)),
                   err     |-> r.err]>>
    /\ pos' = r.rd.pos

\* one invocation of printEntries: it returns nil on the empty worklist, an
\* error when a seek or read fails, and else calls itself
PrintDirectory ==
    /\ calls # <<>> /\ calls[1].pc = "printEntries"
    /\ Len(calls[1].visited) < MaxVisits
    /\ IF calls[1].offsets = <<>>
       THEN calls' = <<[calls[1] EXCEPT !.pc = "done"]>> /\ pos' = pos
       ELSE PrintedDirectory(calls[1],
                             printEntries(src, parser, NewReader(pos, 0), calls[1].offsets))
    /\ UNCHANGED <<file, src, parser, Defaults, last, snap, puts>>

NextPrint == NewParser \/ PrintEntries \/ PrintDirectory

SpecPrint == InitPrint /\ [][NextPrint]_vars

\* no element of seq occurs twice
AtMostOnce(seq) == \A i \in 1..Len(seq), j \in 1..Len(seq) : seq[i] = seq[j] => i = j

\* C26 as the specification states it: PrintEntries visits no directory
\* offset twice (so that it terminates on files whose pointers form a cycle).
C26_AsStated ==
    (calls # <<>> /\ last.op = "PrintEntries") => AtMostOnce(calls[1].visited)

\* the root directory of the looping image, whose Exif pointer leads back to
\* it, is visited again and again: the walk has made MaxVisits invocations,
\* all at the root's offset, and its worklist is not empty
C26_Witness ==
    /\ calls # <<>> /\ last.op = "PrintEntries"
    /\ file.name = "looping"
    /\ Len(calls[1].visited) = MaxVisits
    /\ \A i \in 1..MaxVisits : calls[1].visited[i] = parser.firstIFDOffset
    /\ calls[1].pc = "printEntries" /\ calls[1].offsets # <<>>

-----------------------------------------------------------------------------
(* One Parse call, step by step, on every image                            *)

TermRequests ==
    {<<>>, <<ImageWidth>>, <<Make>>, <<ExposureTime>>, <<GPSLatitude>>,
     <<ImageWidth, ExposureTime>>, <<GPSLatitude, ExposureTime>>, <<Exif>>}

InitTerm == InitOn(Images)

\* go p.Parse(ids...): the only call on the source
Start ==
    /\ parser.ok /\ calls = <<>>
    /\ \E ids \in TermRequests :
        /\ calls' = <<[Call(parser, Defaults, ids, TRUE) EXCEPT !.handle = pos]>>
        /\ last' = [NoResult EXCEPT !.op = "Start", !.ids = ids, !.mapping = Defaults]
    /\ UNCHANGED <<file, src, pos, parser, Defaults, snap, puts>>

NextTerm == NewParser \/ Start \/ Run(1)

\* the goroutine of the call is not held up: it makes its next step
SpecTerm == InitTerm /\ [][NextTerm]_vars /\ WF_vars(Run(1))

\* the positions of a call inside the loop of collect
InLoop == {"seekEntry", "readEntry", "seekValue", "readValue"}

\* the scans begun are the root's, then Exif's, then GPSInfo's, each once
ScansInOrder(scans) ==
    /\ Len(scans) <= 3
    /\ \A i \in 1..Len(scans), j \in 1..Len(scans) : i < j => scans[i] < scans[j]
    /\ \A i \in 1..Len(scans) : scans[i] \in ParseGroups
    /\ scans # <<>> => scans[1] = Group_IFD0

\* the call is within its bounds: at most three scans, and inside the loop
\* of a scan fewer than `count` records read before the current one
Bounded(c) ==
    /\ ScansInOrder(c.scans)
    /\ c.numEntries < Pow2_16
    /\ c.pc \in InLoop => c.i < c.numEntries

Started == calls # <<>>
Finished == calls # <<>> /\ calls[1].pc = "done"

\* C27: Parse terminates on every file: a call that has started returns; it
\* begins at most three directory scans (the root's, then Exif's, then
\* GPSInfo's, each at most once, whatever the pointers lead to), and a scan
\* reads at most `count` records, count being at most 65535.
C27_ParseTerminates ==
    /\ [](Started => Bounded(calls[1]))
    /\ Started ~> Finished

\* ExposureTime asked of the image whose Exif pointer leads back to the root
\* directory: the root directory is scanned twice, as root and as Exif
\* directory, and Parse returns the root's ExposureTime record
C27_Witness ==
    /\ Finished /\ file.name = "looping"
    /\ calls[1].ids = <<ExposureTime>>
    /\ calls[1].scans = <<Group_IFD0, Group_Exif>>
    /\ calls[1].err = ErrNil /\ DOMAIN calls[1].entries = {ExposureTime}

-----------------------------------------------------------------------------
(* Two sessions and the mapping table.  NewParser sets `mapping: Defaults`: *)
(* a Go map is a reference, so the mapping of every session is the         *)
(* package's table itself, the one WithMapping writes to.                  *)

SessionImages == {f \in Images : f.name \in {"sparse", "cr2"}}

InitSessions == InitOn(SessionImages)

\* q.Parse(ids...) as it goes with the table `mapping`, q being a session of
\* its own on the same bytes, with its own handle
ParseOther(bytes, mapping, ids, q) ==
    Parse(bytes, q.p, mapping, NewReader(q.rd.pos, 0), ids)

\* q, _ := NewParser(r2); q.Parse(ids...): q.mapping is Defaults
OtherParsed(ids, r) ==
    last' = [NoResult EXCEPT !.op = "OtherParse", !.ids = ids, !.mapping = Defaults,
                             !.entries = r.entries, !.err = r.err, !.scans = r.scans,
                             !.ifd0Entries = r.ifd0Entries, !.log = r.rd.log]

OtherParse ==
    /\ parser.ok
    /\ \E ids \in Requests :
        OtherParsed(ids, ParseOther(src, Defaults, ids, NewParserOf(src, NewReader(W(0), 0))))
    /\ UNCHANGED <<file, src, pos, parser, Defaults, snap, calls, puts>>

NextSessions == NewParser \/ WithMappingOp \/ OtherParse

SpecSessions == InitSessions /\ [][NextSessions]_vars

\* the result of r with the table the package declares
WithDeclaredTable(ids, r) == last.entries = r.entries /\ last.err = r.err

\* C28 as the specification states it: WithMapping on session p leaves the
\* package's default table as declared, and a Parse on another session q
\* returns what it returns with the default table, whatever p was given.
C28_AsStated ==
    /\ Defaults = DefaultsTable
    /\ last.op = "OtherParse" =>
            WithDeclaredTable(last.ids,
                ParseOther(src, DefaultsTable, last.ids, NewParserOf(src, NewReader(W(0), 0))))

\* p.WithMapping({10: IFD0, MakerNotes: Exif}) was called; q.Parse(10) on
\* the directory [5, 10, 20, 30] returns the record 10, which the declared
\* table does not map
C28_Witness ==
    /\ last.op = "OtherParse" /\ file.name = "sparse" /\ last.ids = <<10>>
    /\ 10 \notin DOMAIN DefaultsTable /\ 10 \in DOMAIN Defaults
    /\ DOMAIN last.entries = {10}
    /\ ParseOther(src, DefaultsTable, last.ids, NewParserOf(src, NewReader(W(0), 0))).entries = <<>>

-----------------------------------------------------------------------------
(* The keys of the map Parse returns                                       *)

\* C29: every key of the map Parse returns is one of the identifiers passed
\* to the call and has an entry in the mapping, and the entry stored under a
\* key has the key as its ID.
C29_OnlyRequestedKeys ==
    last.op = "Parse" =>
        \A k \in DOMAIN last.entries :
            /\ k \in Ids(last.ids)
            /\ k \in DOMAIN last.mapping
            /\ last.entries[k].ID = k

\* the root scan for ImageWidth and ExposureTime matches the Exif pointer
\* record too, which was not asked for: the map has the two keys asked for
C29_Witness ==
    /\ last.op = "Parse" /\ file.name = "cr2" /\ last.ids = <<ImageWidth, ExposureTime>>
    /\ DOMAIN last.ifd0Entries = {ImageWidth, Exif}
    /\ DOMAIN last.entries = {ImageWidth, ExposureTime}
    /\ last.entries[ImageWidth].ID = ImageWidth /\ last.entries[ExposureTime].ID = ExposureTime

-----------------------------------------------------------------------------
(* The 16-bit scalar and the first two bytes of the payload field          *)

\* the 4 bytes of the payload field of a record whose payload decodes to
\* rawValue, in file order
PayloadField(bo, rawValue) == PutUint32(bo, rawValue)

\* the 16-bit integer in the first two bytes of the payload field
FirstTwoBytes(bo, rawValue) == Uint16(bo, SubSeq(PayloadField(bo, rawValue), 1, 2))

\* the payload field of the i-th record (from 0) of the root directory, as
\* the source holds it
RootPayloadField(i) ==
    SubSeq(src, Small(parser.firstIFDOffset) + 2 + i * EntryLength + 9,
                Small(parser.firstIFDOffset) + 2 + i * EntryLength + 12)

\* C30 as the specification states it: for an unsigned 16-bit entry of count
\* 1, the uint16 decoded by Parse, and by ReadUint16, is the 16-bit integer
\* stored in the first two bytes of the record's payload field, read in the
\* session's byte order, in big-endian files as in little-endian ones.
C30_AsStated ==
    /\ (last.op = "Parse" /\ last.err = ErrNil) =>
            \A e \in ScannedEntries :
                (e.DataType = DataType_UShort /\ e.Length = W(1)) =>
                    e.Value.Uint16 = FirstTwoBytes(parser.byteOrder, e.RawValue)
    /\ (last.op = "ReadUint16" /\ last.err = ErrNil) =>
            last.value = FirstTwoBytes(parser.byteOrder, last.entry.RawValue)

\* ReadUint16 on the width record of the big-endian image, whose payload
\* field holds 14 40 00 00: the first two bytes are 5184, the result is 0
C30_Witness ==
    /\ last.op = "ReadUint16" /\ last.err = ErrNil
    /\ parser.byteOrder = BigEndian
    /\ last.entry.ID = ImageWidth /\ last.entry.DataType = DataType_UShort
    /\ last.entry.Length = W(1)
    /\ RootPayloadField(0) = <<20, 64, 0, 0>>
    /\ PayloadField(BigEndian, last.entry.RawValue) = RootPayloadField(0)
    /\ FirstTwoBytes(BigEndian, last.entry.RawValue) = 5184
    /\ last.value = 0

====
